---------------------------- MODULE Spec2Model ----------------------------
(***************************************************************************)
(* Model of the chunk / call-with-retry / parse / reconstruct pipeline of  *)
(* the content authenticator: services/geminiService (checkPlagiarism,     *)
(* checkAiContent, humanizeText, generateContentWithRetry, the two         *)
(* process*Results reconstructors) and utils/textUtils (countWords,        *)
(* chunkText).                                                             *)
(*                                                                         *)
(* A JavaScript string is a sequence of one-character strings; the empty   *)
(* string is << >>.                                                        *)
(***************************************************************************)
EXTENDS Integers, Sequences, FiniteSets, TLC

\* ------------------------------------------------------------------ bounds

\* Longest original text handed to a reconstructor.
MaxTextLen == 4
\* Longest finding list handed to a reconstructor.
MaxFindings == 2

\* Longest text handed to chunkText on its own.
MaxChunkTextLen == 5
\* Largest word limit chunkText is run with.
MaxWordLimit == 3

\* Longest text handed to an orchestrator.
MaxRunTextLen == 4
\* Largest chunk size in words an orchestrator is run with.
MaxRunWordLimit == 2

\* Longest original text the score computation is run on by itself.
MaxScoreLen == 40
\* Longest text of the orchestrator runs over texts with line breaks.
MaxRejoinTextLen == 5
\* Most words in a text of the orchestrator runs that record their remote calls.
MaxLiveWords == 2
\* Longest text handed to the App's handleAnalyze.
MaxAppTextLen == 1

\* ------------------------------------------------- program constants

CHUNK_SIZE_WORDS == 2000

MAX_RETRIES == 3
INITIAL_DELAY_MS == 1000

\* --------------------------------------------------------------- strings

\* Characters of the texts a reconstructor is run on.
Letters == {"a", "b"}

\* All strings over alphabet A of length at most n.
StringsUpTo(A, n) == UNION {[1..k -> A] : k \in 0..n}

\* s.slice(from - 1, to) with 1-based inclusive bounds.
Slice(s, from, to) == SubSeq(s, from, to)

\* Whether sep occurs in s at 1-based position p.
OccursAt(s, sep, p) ==
    /\ p + Len(sep) - 1 <= Len(s)
    /\ \A k \in 1..Len(sep) : s[p + k - 1] = sep[k]

\* s.indexOf(sep, from): the least position >= from where sep occurs, 0 if none.
IndexOf(s, sep, from) ==
    LET hits == {p \in from..Len(s) : OccursAt(s, sep, p)}
    IN  IF hits = {} THEN 0 ELSE CHOOSE p \in hits : \A q \in hits : p <= q

\* String.prototype.split with a non-empty string separator, scanning from p.
RECURSIVE SplitFrom(_, _, _)
SplitFrom(s, sep, p) ==
    LET idx == IndexOf(s, sep, p)
    IN  IF idx = 0
        THEN << Slice(s, p, Len(s)) >>
        ELSE << Slice(s, p, idx - 1) >> \o SplitFrom(s, sep, idx + Len(sep))

\* String.prototype.split(separator) for a string separator: an empty separator
\* splits into the code units ("" gives the empty array); otherwise the pieces
\* between the non-overlapping, leftmost-first occurrences of the separator.
split(s, sep) ==
    IF sep = << >>
    THEN [k \in 1..Len(s) |-> << s[k] >>]
    ELSE SplitFrom(s, sep, 1)

\* String.prototype.includes(sub).
includes(s, sub) == \E p \in 1..(Len(s) + 1) : OccursAt(s, sub, p)

\* The concatenation of a sequence of strings.
RECURSIVE Concat(_)
Concat(ss) == IF ss = << >> THEN << >> ELSE Head(ss) \o Concat(Tail(ss))

\* Sum of a sequence of integers.
RECURSIVE SumSeq(_)
SumSeq(ns) == IF ns = << >> THEN 0 ELSE Head(ns) + SumSeq(Tail(ns))

\* num / den rounded to the nearest integer in exact arithmetic, for num >= 0,
\* den > 0 (a half rounds up).
RoundDiv(num, den) == (2 * num + den) \div (2 * den)

\* Math.min(a, b).
MathMin(a, b) == IF a < b THEN a ELSE b

\* Characters of the texts chunkText is run on: two letters, a space, a newline.
ChunkChars == {"a", "b", " ", "\n"}

\* What the regular expression class \s matches.
IsSpace(c) == c \in {" ", "\n", "\t"}

\* String.prototype.trim().
RECURSIVE trim(_)
trim(s) ==
    IF s = << >> THEN s
    ELSE IF IsSpace(s[1]) THEN trim(Tail(s))
    ELSE IF IsSpace(s[Len(s)]) THEN trim(SubSeq(s, 1, Len(s) - 1))
    ELSE s

\* The least position >= p of s holding a whitespace character, Len(s) + 1 if none.
RECURSIVE NextSpace(_, _)
NextSpace(s, p) ==
    IF p > Len(s) THEN Len(s) + 1
    ELSE IF IsSpace(s[p]) THEN p ELSE NextSpace(s, p + 1)

\* The least position >= p of s holding a non-whitespace character, Len(s) + 1 if none.
RECURSIVE NextNonSpace(_, _)
NextNonSpace(s, p) ==
    IF p > Len(s) THEN Len(s) + 1
    ELSE IF IsSpace(s[p]) THEN NextNonSpace(s, p + 1) ELSE p

\* s.split(/\s+/) from position p: the pieces between the maximal whitespace
\* runs; a run at either end of the string leaves an empty piece there.
RECURSIVE SplitWhitespaceFrom(_, _)
SplitWhitespaceFrom(s, p) ==
    LET q == NextSpace(s, p)
    IN  IF q > Len(s)
        THEN << Slice(s, p, Len(s)) >>
        ELSE << Slice(s, p, q - 1) >> \o SplitWhitespaceFrom(s, NextNonSpace(s, q))

\* text.split(/\s+/)
SplitWhitespace(s) == SplitWhitespaceFrom(s, 1)

\* Array.prototype.join(sep) for an array of strings.
RECURSIVE join(_, _)
join(ss, sep) ==
    IF ss = << >> THEN << >>
    ELSE IF Len(ss) = 1 THEN ss[1]
    ELSE ss[1] \o sep \o join(Tail(ss), sep)

\* ---------------------------------------------------------------- chunker

\* countWords(text)
countWords(str) ==
    IF trim(str) = << >> THEN 0 ELSE Len(SplitWhitespace(trim(str)))

\* The for-of loop of chunkText from words[k] on, and the flush after it.
RECURSIVE ChunkLoop(_, _, _, _, _)
ChunkLoop(words, k, currentChunk, acc, chunkSizeInWords) ==
    IF k > Len(words)
    THEN IF Len(currentChunk) > 0 THEN Append(acc, join(currentChunk, << " " >>)) ELSE acc
    ELSE LET pushed == Append(currentChunk, words[k])
         IN  IF Len(pushed) >= chunkSizeInWords
             THEN ChunkLoop(words, k + 1, << >>,
                            Append(acc, join(pushed, << " " >>)), chunkSizeInWords)
             ELSE ChunkLoop(words, k + 1, pushed, acc, chunkSizeInWords)

\* chunkText without its single-chunk early return: always splits and rejoins.
chunkTextAlwaysSplit(str, chunkSizeInWords) ==
    ChunkLoop(SplitWhitespace(str), 1, << >>, << >>, chunkSizeInWords)

\* chunkText(text, chunkSizeInWords)
chunkText(str, chunkSizeInWords) ==
    IF countWords(str) <= chunkSizeInWords
    THEN << str >>
    ELSE ChunkLoop(SplitWhitespace(str), 1, << >>, << >>, chunkSizeInWords)

\* ------------------------------------------------------------- variables

VARIABLES
    text,          \* the text argument of chunkText / of an orchestrator
    wordLimit,     \* the chunkSizeInWords argument of chunkText
    cpc,           \* chunkText position: "idle", "entry", "returned"
    chunks,        \* what chunkText returned; << >> before the return
    mode,          \* which reconstructor / orchestrator runs: "plagiarism", "ai", "humanize"
    originalText,  \* the text argument
    findings,      \* the findings argument of the reconstructor
    rpc,           \* reconstructor position: "idle", "entry", "loop", "returned"
    fi,            \* number of findings the outer forEach has processed
    segments,      \* the reconstructor's local `segments`
    totalChars,    \* totalPlagiarizedChars / totalAiChars
    result,        \* the returned {overallScore, segments}; NoResult before the return
    opc,           \* orchestrator position (see the actions below)
    i,             \* the chunk loop's index
    allFindings,   \* allFindings of checkPlagiarism / checkAiContent
    humanizedChunks, \* humanizedChunks of humanizeText
    response,      \* what generateContentWithRetry returned for the current chunk
    caught,        \* the value that reached the orchestrator's catch clause
    outcome,       \* how the orchestrator's promise settled
    inFlight,      \* the remote calls issued and not yet settled
    processed,     \* history: the chunk indexes whose response was processed, in order
    returned,      \* history: the chunk indexes whose remote call returned a response, in order
    attempt,       \* generateContentWithRetry's loop variable
    lastError,     \* generateContentWithRetry's lastError
    made,          \* history: remote attempts of the current generateContentWithRetry call
    retried,       \* history: the arguments of its onRetry calls, in order
    slept,         \* history: the delays of its backoff sleeps, in order
    reported,      \* the arguments of the latest onProgress invocation
    issued,        \* history: the remote calls the run has issued, counted where recorded
    view,          \* App state: 'upload', 'loading' or 'results'
    resultData,    \* App state: the ResultData shown, or null
    loadingProgress, \* App state: the progress the Loader shows
    loadingMessage,  \* App state: the message the Loader shows
    appError,      \* App state `error`: the error message, or null
    analysis       \* the handleAnalyze call that has not finished, if any

reconVars == << mode, originalText, findings, rpc, fi, segments, totalChars, result >>

chunkVars == << text, wordLimit, cpc, chunks >>

orchVars == << opc, i, allFindings, humanizedChunks, response, caught, outcome,
              inFlight, processed, returned, reported, issued >>

orchVarsButPc == << i, allFindings, humanizedChunks, response, caught, outcome,
                   inFlight, processed, returned, reported, issued >>

retryVars == << attempt, lastError, made, retried, slept >>

appVars == << view, resultData, loadingProgress, loadingMessage, appError, analysis >>

vars == << text, wordLimit, cpc, chunks, mode, originalText, findings, rpc, fi, segments,
          totalChars, result, opc, i, allFindings, humanizedChunks, response, caught,
          outcome, inFlight, processed, returned,
          attempt, lastError, made, retried, slept, reported, issued,
          view, resultData, loadingProgress, loadingMessage, appError, analysis >>

NoResult == [none |-> TRUE]
\* An unset local (response, caught, lastError before their first assignment).
NoValue == [cls |-> "unset", message |-> << >>,
            id |-> [origin |-> "none", chunk |-> 0, attempt |-> 0]]
\* The orchestrator's promise before it settles.
Pending == [kind |-> "pending", value |-> NoValue]

\* The double 0.
DoubleZero == [bits |-> << >>, exp |-> 0]

\* onProgress(progress, message): the arguments of one invocation.
Report(p, msg) == [progress |-> p, message |-> msg]

\* Before the first invocation of onProgress.
NoReport == Report(DoubleZero, << >>)

\* The history of issued remote calls is [recording, calls]: it counts the calls
\* in the runs that record it and stays as it is in the others.
NotRecorded == [recording |-> FALSE, calls |-> 0]

Recorded == [recording |-> TRUE, calls |-> 0]

CountCall(h) == IF h.recording THEN [h EXCEPT !.calls = @ + 1] ELSE h

\* A nullable value is << >> (null) or << v >>.
Null == << >>

\* A handleAnalyze call is [mode, text, options, at, settled]: its arguments,
\* its position (awaiting the service, or between the two setState calls that
\* follow the await) and the promise of the service it awaits. This is the
\* value when no call is running.
NoAnalysis == [mode |-> "none", text |-> << >>, options |-> "none", at |-> "done",
               settled |-> Pending]

\* The App's state after its useState initialisers.
AppMounted ==
    /\ view = "upload"
    /\ resultData = Null
    /\ loadingProgress = DoubleZero
    /\ loadingMessage = << >>
    /\ appError = Null
    /\ analysis = NoAnalysis

\* ---------------------------------------------------------- reconstructor

\* The substrings carried by the findings of the checked runs: every string over
\* Letters of at most two characters, the empty string included.
FindingTexts == StringsUpTo(Letters, 2)

\* Metadata is opaque to the reconstructors (it is only copied), so the k-th
\* finding of a list carries a tag of its own: source "s<k>", confidence k/10.
SourceUrlOf(k) == << "s", k >>
ConfidenceOf(k) == k

\* PlagiarismFinding[] built from the list of flagged substrings.
PlagiarismFindings(ts) ==
    [k \in 1..Len(ts) |->
        [plagiarized_text |-> ts[k], source_url |-> SourceUrlOf(k),
         confidence_score |-> ConfidenceOf(k)]]

\* AiDetectionFinding[] built from the list of <<substring, is_ai_generated>>.
AiDetectionFindings(ps) ==
    [k \in 1..Len(ps) |->
        [text_segment |-> ps[k][1], is_ai_generated |-> ps[k][2],
         confidence_score |-> ConfidenceOf(k)]]

PlagiarismFindingLists ==
    {PlagiarismFindings(ts) : ts \in UNION {[1..n -> FindingTexts] : n \in 0..MaxFindings}}

AiDetectionFindingLists ==
    {AiDetectionFindings(ps) :
        ps \in UNION {[1..n -> FindingTexts \X BOOLEAN] : n \in 0..MaxFindings}}

\* A segment's flag, whichever reconstructor built it.
IsFlagged(segment) ==
    IF "isPlagiarized" \in DOMAIN segment THEN segment.isPlagiarized ELSE segment.isAi

\* The texts of a segment list, in order.
SegmentTexts(segs) == [k \in 1..Len(segs) |-> segs[k].text]

\* The inner for loop with the bound of its second test off by one
\* (i < parts.length - 2): the match before the last part is not pushed.
RECURSIVE PushPartsDropLastMatch(_, _, _, _)
PushPartsDropLastMatch(parts, idx, plain, flagged) ==
    IF idx > Len(parts) THEN << >>
    ELSE (IF parts[idx] # << >> THEN << [plain EXCEPT !.text = parts[idx]] >> ELSE << >>)
         \o (IF idx < Len(parts) - 1 THEN << flagged >> ELSE << >>)
         \o PushPartsDropLastMatch(parts, idx + 1, plain, flagged)

\* The inner for loop with its second test reversed (i > parts.length - 1):
\* no match is ever pushed.
RECURSIVE PushPartsNeverFlags(_, _, _, _)
PushPartsNeverFlags(parts, idx, plain, flagged) ==
    IF idx > Len(parts) THEN << >>
    ELSE (IF parts[idx] # << >> THEN << [plain EXCEPT !.text = parts[idx]] >> ELSE << >>)
         \o PushPartsNeverFlags(parts, idx + 1, plain, flagged)

\* Appends, for parts[idx..], what the inner for loop pushes: the part when it is
\* non-empty (as the unflagged segment `plain` with that text), then a flagged
\* segment when another part follows.
RECURSIVE PushParts(_, _, _, _)
PushParts(parts, idx, plain, flagged) ==
    IF idx > Len(parts) THEN << >>
    ELSE (IF parts[idx] # << >> THEN << [plain EXCEPT !.text = parts[idx]] >> ELSE << >>)
         \o (IF idx < Len(parts) THEN << flagged >> ELSE << >>)
         \o PushParts(parts, idx + 1, plain, flagged)

PlainPlagiarismSegment(t) == [text |-> t, isPlagiarized |-> FALSE]

FlaggedPlagiarismSegment(finding) ==
    [text |-> finding.plagiarized_text, isPlagiarized |-> TRUE,
     source |-> finding.source_url, score |-> finding.confidence_score]

\* The same body without the `if (segment.isPlagiarized)` guard: flagged
\* segments are split again.
PlagiarismSegmentStepNoSkip(segment, finding) ==
    PushParts(split(segment.text, finding.plagiarized_text), 1,
              PlainPlagiarismSegment(<< >>), FlaggedPlagiarismSegment(finding))

\* Body of the inner segments.forEach of processPlagiarismResults: what one
\* segment contributes to newSegments.
PlagiarismSegmentStep(segment, finding) ==
    IF segment.isPlagiarized
    THEN << segment >>
    ELSE PushParts(split(segment.text, finding.plagiarized_text), 1,
                   PlainPlagiarismSegment(<< >>), FlaggedPlagiarismSegment(finding))

\* The accumulation with parts.length in place of parts.length - 1.
PlagiarismSegmentCharsPerPart(segment, finding) ==
    IF segment.isPlagiarized
    THEN 0
    ELSE LET parts == split(segment.text, finding.plagiarized_text)
         IN  IF Len(parts) > 1
             THEN Len(finding.plagiarized_text) * Len(parts)
             ELSE 0

\* What the same body adds to totalPlagiarizedChars.
PlagiarismSegmentChars(segment, finding) ==
    IF segment.isPlagiarized
    THEN 0
    ELSE LET parts == split(segment.text, finding.plagiarized_text)
         IN  IF Len(parts) > 1
             THEN Len(finding.plagiarized_text) * (Len(parts) - 1)
             ELSE 0

PlainAiSegment(t) == [text |-> t, isAi |-> FALSE]

FlaggedAiSegment(finding) ==
    [text |-> finding.text_segment, isAi |-> TRUE, score |-> finding.confidence_score]

\* Body of the inner segments.forEach of processAiDetectionResults.
AiSegmentStep(segment, finding) ==
    IF segment.isAi
    THEN << segment >>
    ELSE PushParts(split(segment.text, finding.text_segment), 1,
                   PlainAiSegment(<< >>), FlaggedAiSegment(finding))

\* What the same body adds to totalAiChars.
AiSegmentChars(segment, finding) ==
    IF segment.isAi
    THEN 0
    ELSE LET parts == split(segment.text, finding.text_segment)
         IN  IF Len(parts) > 1
             THEN Len(finding.text_segment) * (Len(parts) - 1)
             ELSE 0

\* The filter left out: every finding is walked.
AiFindingsOfUnfiltered(fs) == fs

\* aiFindings = findings.filter(f => f.is_ai_generated)
AiFindingsOf(fs) == SelectSeq(fs, LAMBDA f : f.is_ai_generated)

\* The list the outer forEach walks.
WorkList == IF mode = "ai" THEN AiFindingsOf(findings) ELSE findings

SegmentStep(segment, finding) ==
    IF mode = "ai" THEN AiSegmentStep(segment, finding)
    ELSE PlagiarismSegmentStep(segment, finding)

\* The accumulation with -= in place of +=.
SegmentCharsSubtracted(segment, finding) ==
    0 - (IF mode = "ai" THEN AiSegmentChars(segment, finding)
         ELSE PlagiarismSegmentChars(segment, finding))

\* The accumulation without the flagged-segment guard: occurrences inside
\* segments an earlier finding flagged are counted again.
SegmentCharsAnySegment(segment, finding) ==
    LET sub == IF mode = "ai" THEN finding.text_segment ELSE finding.plagiarized_text
        parts == split(segment.text, sub)
    IN  IF Len(parts) > 1 THEN Len(sub) * (Len(parts) - 1) ELSE 0

SegmentChars(segment, finding) ==
    IF mode = "ai" THEN AiSegmentChars(segment, finding)
    ELSE PlagiarismSegmentChars(segment, finding)

\* One pass of the outer forEach: newSegments for the whole segment list.
NewSegments(segs, finding) ==
    Concat([k \in 1..Len(segs) |-> SegmentStep(segs[k], finding)])

\* The matched characters one pass adds.
PassChars(segs, finding) ==
    SumSeq([k \in 1..Len(segs) |-> SegmentChars(segs[k], finding)])

\* JavaScript Numbers are IEEE 754 doubles.  A positive double is [bits, exp]:
\* its 53 significand bits, most significant first (bits[1] = 1), and the
\* exponent of its last bit, so that its value is Nat(bits) * 2^exp.  Zero is
\* [bits |-> << >>, exp |-> 0].
SignificandBits == 53

\* The binary digits of a natural number, most significant first (0 is << >>).
RECURSIVE NatBits(_)
NatBits(n) == IF n = 0 THEN << >> ELSE NatBits(n \div 2) \o << n % 2 >>

\* The natural number a (short) bit sequence denotes.
RECURSIVE BitsNat(_)
BitsNat(bits) ==
    IF bits = << >> THEN 0
    ELSE 2 * BitsNat(SubSeq(bits, 1, Len(bits) - 1)) + bits[Len(bits)]

\* bits + 1.
RECURSIVE IncBits(_)
IncBits(bits) ==
    IF bits = << >> THEN << 1 >>
    ELSE IF bits[Len(bits)] = 0 THEN SubSeq(bits, 1, Len(bits) - 1) \o << 1 >>
    ELSE IncBits(SubSeq(bits, 1, Len(bits) - 1)) \o << 0 >>

\* The first n bits after the binary point of r / den (0 <= r < den < 2^17),
\* by long division, 14 bits at a time.
RECURSIVE QuotientBits(_, _, _)
QuotientBits(r, den, n) ==
    IF n = 0 THEN << >>
    ELSE LET w == IF n < 14 THEN n ELSE 14
         IN  [k \in 1..w |-> (((r * (2 ^ w)) \div den) \div (2 ^ (w - k))) % 2]
             \o QuotientBits((r * (2 ^ w)) % den, den, n - w)

\* The remainder the long division of r by den leaves after n bits.
RECURSIVE QuotientRem(_, _, _)
QuotientRem(r, den, n) ==
    IF n = 0 THEN r
    ELSE LET w == IF n < 14 THEN n ELSE 14
         IN  QuotientRem((r * (2 ^ w)) % den, den, n - w)

\* The number of zero bits after the binary point of r / den before its first
\* one bit (0 < r < den).
RECURSIVE LeadingZeroCount(_, _)
LeadingZeroCount(r, den) ==
    IF 2 * r >= den THEN 0 ELSE 1 + LeadingZeroCount(2 * r, den)

\* Round-to-nearest, ties-to-even, of the exact value Nat(bits) * 2^exp (plus a
\* non-zero part below the last bit when sticky) to a double; bits[1] = 1.
RoundToDouble(bits, exp, sticky) ==
    IF Len(bits) <= SignificandBits
    THEN [bits |-> bits \o [k \in 1..(SignificandBits - Len(bits)) |-> 0],
          exp |-> exp - (SignificandBits - Len(bits))]
    ELSE LET kept == SubSeq(bits, 1, SignificandBits)
             guard == bits[SignificandBits + 1]
             below == sticky \/ \E k \in (SignificandBits + 2)..Len(bits) : bits[k] = 1
             up == guard = 1 /\ (below \/ kept[SignificandBits] = 1)
             rounded == IF up THEN IncBits(kept) ELSE kept
             e == exp + (Len(bits) - SignificandBits)
         IN  IF Len(rounded) > SignificandBits
             THEN [bits |-> SubSeq(rounded, 1, SignificandBits), exp |-> e + 1]
             ELSE [bits |-> rounded, exp |-> e]

\* The double num / den for naturals num >= 0, den > 0.
DoubleQuotient(num, den) ==
    IF num = 0 THEN [bits |-> << >>, exp |-> 0]
    ELSE LET q == num \div den
             r == num % den
             z == IF q > 0 \/ r = 0 THEN 0 ELSE LeadingZeroCount(r, den)
             r0 == r * (2 ^ z)
             n == SignificandBits + 2
         IN  RoundToDouble(NatBits(q) \o QuotientBits(r0, den, n), 0 - (z + n),
                           QuotientRem(r0, den, n) # 0)

\* The w-bit representation of n < 2^w, most significant bit first.
FixedBits(n, w) == [k \in 1..w |-> (n \div (2 ^ (w - k))) % 2]

\* bits * c + carry for a small natural c, exactly; the product is formed 16
\* bits at a time from the least significant end.
RECURSIVE MulCarry(_, _, _)
MulCarry(bits, c, carry) ==
    IF bits = << >> THEN NatBits(carry)
    ELSE LET w == IF Len(bits) < 16 THEN Len(bits) ELSE 16
             v == BitsNat(SubSeq(bits, Len(bits) - w + 1, Len(bits))) * c + carry
         IN  MulCarry(SubSeq(bits, 1, Len(bits) - w), c, v \div (2 ^ w))
             \o FixedBits(v % (2 ^ w), w)

\* The double x * c for a double x >= 0 and a small natural c > 0.
DoubleTimes(x, c) ==
    IF x.bits = << >> THEN x
    ELSE RoundToDouble(MulCarry(x.bits, c, 0), x.exp, FALSE)

\* Math.round(x) for a double 0 <= x < 2^31: the nearest integer, a tie going up.
MathRound(x) ==
    IF x.bits = << >> THEN 0
    ELSE LET intLen == Len(x.bits) + x.exp
         IN  IF intLen < 0 THEN 0
             ELSE IF intLen >= Len(x.bits)
             THEN BitsNat(x.bits) * (2 ^ (intLen - Len(x.bits)))
             ELSE BitsNat(SubSeq(x.bits, 1, intLen)) + x.bits[intLen + 1]

\* Math.round(-x) for a double 0 <= x < 2^31: a tie goes up, towards zero.
MathRoundNegated(x) ==
    IF x.bits = << >> THEN 0
    ELSE LET intLen == Len(x.bits) + x.exp
         IN  IF intLen < 0 THEN 0
             ELSE IF intLen >= Len(x.bits)
             THEN 0 - BitsNat(x.bits) * (2 ^ (intLen - Len(x.bits)))
             ELSE 0 - (BitsNat(SubSeq(x.bits, 1, intLen))
                       + (IF /\ x.bits[intLen + 1] = 1
                             /\ \E k \in (intLen + 2)..Len(x.bits) : x.bits[k] = 1
                          THEN 1 ELSE 0))

\* The largest denominator whose percentages are kept in PercentMemo.
PercentMemoLen == MaxRunTextLen + MaxRejoinTextLen + MaxLiveWords

\* The doubles (num / den) * 100 for the small fractions of the checked runs,
\* computed once.
PercentMemo ==
    [den \in 1..PercentMemoLen |->
        [num \in 1..den |-> DoubleTimes(DoubleQuotient(num, den), 100)]]

\* The double (num / den) * 100 for naturals num >= 0, den > 0.
DoublePercent(num, den) ==
    IF den <= PercentMemoLen /\ num >= 1 /\ num <= den
    THEN PercentMemo[den][num]
    ELSE DoubleTimes(DoubleQuotient(num, den), 100)

\* overallScore: Math.min(100, Math.round(len > 0 ? (total / len) * 100 : 0)),
\* in double arithmetic (a negative total gives the mirrored doubles).
OverallScore(original, total) ==
    MathMin(100, IF Len(original) > 0
                 THEN IF total >= 0
                      THEN MathRound(DoublePercent(total, Len(original)))
                      ELSE MathRoundNegated(
                              DoubleTimes(DoubleQuotient(0 - total, Len(original)), 100))
                 ELSE 0)

\* The single unflagged segment spanning the whole text.
WholeTextSegment(original) ==
    IF mode = "ai" THEN PlainAiSegment(original) ELSE PlainPlagiarismSegment(original)

\* The early return with an empty segment list.
EarlyResultNoSegment(original) == [overallScore |-> 0, segments |-> << >>]

\* if (findings.length === 0) return {overallScore: 0, segments: [whole text]}
EarlyResult(original) ==
    [overallScore |-> 0, segments |-> << WholeTextSegment(original) >>]

\* The early return of process*Results on an empty (filtered) finding list.
ReturnNoFindings ==
    /\ rpc = "entry"
    /\ Len(WorkList) = 0
    /\ result' = EarlyResult(originalText)
    /\ rpc' = "returned"
    /\ UNCHANGED << mode, originalText, findings, fi, segments, totalChars >>
    /\ UNCHANGED << chunkVars, orchVars, retryVars, appVars >>

\* let segments = [{text: originalText, flagged: false}]; let total = 0
BeginForEach ==
    /\ rpc = "entry"
    /\ Len(WorkList) > 0
    /\ segments' = << WholeTextSegment(originalText) >>
    /\ totalChars' = 0
    /\ fi' = 0
    /\ rpc' = "loop"
    /\ UNCHANGED << mode, originalText, findings, result >>
    /\ UNCHANGED << chunkVars, orchVars, retryVars, appVars >>

\* One iteration of the outer findings.forEach.
ApplyFinding ==
    /\ rpc = "loop"
    /\ fi < Len(WorkList)
    /\ LET finding == WorkList[fi + 1]
       IN  /\ segments' = NewSegments(segments, finding)
           /\ totalChars' = totalChars + PassChars(segments, finding)
    /\ fi' = fi + 1
    /\ UNCHANGED << mode, originalText, findings, rpc, result >>
    /\ UNCHANGED << chunkVars, orchVars, retryVars, appVars >>

\* The score computation and the return after the loop.
ReturnResult ==
    /\ rpc = "loop"
    /\ fi = Len(WorkList)
    /\ result' = [overallScore |-> OverallScore(originalText, totalChars),
                  segments |-> segments]
    /\ rpc' = "returned"
    /\ UNCHANGED << mode, originalText, findings, fi, segments, totalChars >>
    /\ UNCHANGED << chunkVars, orchVars, retryVars, appVars >>

ReconTexts == StringsUpTo(Letters, MaxTextLen)

InitRecon ==
    /\ text = << >>
    /\ wordLimit = 0
    /\ cpc = "idle"
    /\ chunks = << >>
    /\ mode \in {"plagiarism", "ai"}
    /\ originalText \in ReconTexts
    /\ findings \in (IF mode = "ai" THEN AiDetectionFindingLists ELSE PlagiarismFindingLists)
    /\ rpc = "entry"
    /\ fi = 0
    /\ segments = << >>
    /\ totalChars = 0
    /\ result = NoResult
    /\ opc = "idle"
    /\ i = 0
    /\ allFindings = << >>
    /\ humanizedChunks = << >>
    /\ response = NoValue
    /\ caught = NoValue
    /\ outcome = Pending
    /\ inFlight = {}
    /\ processed = << >>
    /\ returned = << >>
    /\ attempt = 0
    /\ lastError = NoValue
    /\ made = 0
    /\ retried = << >>
    /\ slept = << >>
    /\ reported = NoReport
    /\ issued = NotRecorded
    /\ AppMounted

NextRecon == ReturnNoFindings \/ BeginForEach \/ ApplyFinding \/ ReturnResult

\* The reconstructors run on every bounded text and finding list.
SpecRecon == InitRecon /\ [][NextRecon]_vars

\* ------------------------------------------- score computation, on its own

\* A text of `total` characters "a" followed by len - total characters "b".
ScoreText(total, len) == [k \in 1..len |-> IF k <= total THEN "a" ELSE "b"]

\* The one-finding list that flags the leading run of "a" of such a text (a
\* substring that does not occur when there is no such run).
ScoreFindings(total) ==
    LET sub == IF total = 0 THEN << "a" >> ELSE ScoreText(total, total)
    IN  IF mode = "ai" THEN AiDetectionFindings(<< << sub, TRUE >> >>)
        ELSE PlagiarismFindings(<< sub >>)

\* A reconstructor after its loop over one finding that matched `total` of the
\* text's `len` characters, for every len up to MaxScoreLen.
InitScore ==
    /\ text = << >>
    /\ wordLimit = 0
    /\ cpc = "idle"
    /\ chunks = << >>
    /\ mode \in {"plagiarism", "ai"}
    /\ \E len \in 0..MaxScoreLen : \E total \in 0..len :
          /\ originalText = ScoreText(total, len)
          /\ findings = ScoreFindings(total)
    /\ rpc = "loop"
    /\ fi = 1
    /\ segments = NewSegments(<< WholeTextSegment(originalText) >>, WorkList[1])
    /\ totalChars = PassChars(<< WholeTextSegment(originalText) >>, WorkList[1])
    /\ result = NoResult
    /\ opc = "idle"
    /\ i = 0
    /\ allFindings = << >>
    /\ humanizedChunks = << >>
    /\ response = NoValue
    /\ caught = NoValue
    /\ outcome = Pending
    /\ inFlight = {}
    /\ processed = << >>
    /\ returned = << >>
    /\ attempt = 0
    /\ lastError = NoValue
    /\ made = 0
    /\ retried = << >>
    /\ slept = << >>
    /\ reported = NoReport
    /\ issued = NotRecorded
    /\ AppMounted

NextScore == ReturnResult

\* The score computation and return of both reconstructors on every ratio of
\* matched characters to text length up to MaxScoreLen.
SpecScore == InitScore /\ [][NextScore]_vars

\* ----------------------------------------------------- chunker, on its own

\* A call of chunkText.
ChunkTextCall ==
    /\ cpc = "entry"
    /\ chunks' = chunkText(text, wordLimit)
    /\ cpc' = "returned"
    /\ UNCHANGED << text, wordLimit >>
    /\ UNCHANGED << reconVars, orchVars, retryVars, appVars >>

InitChunk ==
    /\ text \in StringsUpTo(ChunkChars, MaxChunkTextLen)
    /\ wordLimit \in 1..MaxWordLimit
    /\ cpc = "entry"
    /\ chunks = << >>
    /\ mode = "none"
    /\ originalText = << >>
    /\ findings = << >>
    /\ rpc = "idle"
    /\ fi = 0
    /\ segments = << >>
    /\ totalChars = 0
    /\ result = NoResult
    /\ opc = "idle"
    /\ i = 0
    /\ allFindings = << >>
    /\ humanizedChunks = << >>
    /\ response = NoValue
    /\ caught = NoValue
    /\ outcome = Pending
    /\ inFlight = {}
    /\ processed = << >>
    /\ returned = << >>
    /\ attempt = 0
    /\ lastError = NoValue
    /\ made = 0
    /\ retried = << >>
    /\ slept = << >>
    /\ reported = NoReport
    /\ issued = NotRecorded
    /\ AppMounted

NextChunk == ChunkTextCall

\* chunkText run on every bounded text and word limit.
SpecChunk == InitChunk /\ [][NextChunk]_vars

\* ------------------------------------------------------- thrown values

\* A thrown value is [cls, message, id]: its class ("Error", "TypeError",
\* "UserFacingError", or "value" for a thrown non-Error), its message as a
\* sequence of words, and the identity of the object (where it was created).
\* String.prototype.includes is matched word by word.

InstanceOfError(e) == e.cls \in {"Error", "TypeError", "UserFacingError"}

InstanceOfUserFacingError(e) == e.cls = "UserFacingError"

\* String.prototype.toLowerCase on one word.
LowerWord(w) ==
    CASE w = "Network" -> "network"
      [] w = "FETCH" -> "fetch"
      [] w = "API" -> "api"
      [] w = "SAFETY" -> "safety"
      [] w = "Resource" -> "resource"
      [] OTHER -> w

\* error.message.toLowerCase()
toLowerCase(msg) == [k \in 1..Len(msg) |-> LowerWord(msg[k])]

\* isRetryableError without its instanceof test: any thrown value with a
\* matching message counts.
isRetryableErrorAnyValue(error) ==
    LET errorMessage == toLowerCase(error.message)
    IN  \/ includes(errorMessage, << "network" >>)
        \/ includes(errorMessage, << "fetch" >>)
        \/ includes(errorMessage, << "429" >>)
        \/ includes(errorMessage, << "503" >>)
        \/ includes(errorMessage, << "500" >>)

\* isRetryableError(error)
isRetryableError(error) ==
    /\ InstanceOfError(error)
    /\ LET errorMessage == toLowerCase(error.message)
       IN  \/ includes(errorMessage, << "network" >>)
           \/ includes(errorMessage, << "fetch" >>)
           \/ includes(errorMessage, << "429" >>)
           \/ includes(errorMessage, << "503" >>)
           \/ includes(errorMessage, << "500" >>)

MSG_FALLBACK == "An unexpected error occurred. The AI service may be temporarily unavailable."
MSG_AUTH == "The API key is invalid or missing. Please ensure it is configured correctly."
MSG_SAFETY == "Your text could not be processed due to safety policies. Please revise your content and try again."
MSG_NETWORK == "A network error occurred. Please check your internet connection and try again."
MSG_TRAFFIC == "The service is experiencing high traffic. Please try again in a few moments."
MSG_INVALID == "The request was invalid. This could be due to unusual formatting in the text. Please try simplifying the content."
MSG_SERVER == "The AI service is currently experiencing a server issue. Please try again in a little while."
MSG_FORMAT == "The AI returned an invalid response format. This can sometimes happen with complex text. Please try your request again."

\* handleApiError's chain with the network test moved in front of the
\* credential test.
ApiErrorMessageNetworkFirst(error) ==
    IF ~InstanceOfError(error) THEN MSG_FALLBACK
    ELSE LET errorMessage == toLowerCase(error.message)
         IN  IF \/ includes(errorMessage, << "network" >>)
                \/ includes(errorMessage, << "fetch" >>)
             THEN MSG_NETWORK
             ELSE IF \/ includes(errorMessage, << "api", "key" >>)
                     \/ includes(errorMessage, << "401" >>)
                     \/ includes(errorMessage, << "403" >>)
             THEN MSG_AUTH
             ELSE IF includes(errorMessage, << "safety" >>)
             THEN MSG_SAFETY
             ELSE IF \/ includes(errorMessage, << "resource", "has", "been", "exhausted" >>)
                     \/ includes(errorMessage, << "429" >>)
             THEN MSG_TRAFFIC
             ELSE IF includes(errorMessage, << "400" >>)
             THEN MSG_INVALID
             ELSE IF \/ includes(errorMessage, << "500" >>)
                     \/ includes(errorMessage, << "503" >>)
             THEN MSG_SERVER
             ELSE MSG_FALLBACK

\* The message handleApiError picks for a caught value.
ApiErrorMessage(error) ==
    IF ~InstanceOfError(error) THEN MSG_FALLBACK
    ELSE LET errorMessage == toLowerCase(error.message)
         IN  IF \/ includes(errorMessage, << "api", "key" >>)
                \/ includes(errorMessage, << "401" >>)
                \/ includes(errorMessage, << "403" >>)
             THEN MSG_AUTH
             ELSE IF includes(errorMessage, << "safety" >>)
             THEN MSG_SAFETY
             ELSE IF \/ includes(errorMessage, << "network" >>)
                     \/ includes(errorMessage, << "fetch" >>)
             THEN MSG_NETWORK
             ELSE IF \/ includes(errorMessage, << "resource", "has", "been", "exhausted" >>)
                     \/ includes(errorMessage, << "429" >>)
             THEN MSG_TRAFFIC
             ELSE IF includes(errorMessage, << "400" >>)
             THEN MSG_INVALID
             ELSE IF \/ includes(errorMessage, << "500" >>)
                     \/ includes(errorMessage, << "503" >>)
             THEN MSG_SERVER
             ELSE MSG_FALLBACK

\* new UserFacingError(message), created at `origin` while chunk k is processed.
UserFacingError(message, origin, k) ==
    [cls |-> "UserFacingError", message |-> << message >>,
     id |-> [origin |-> origin, chunk |-> k, attempt |-> 0]]

\* handleApiError(error): always throws; this is the value it throws.
handleApiError(error, k) == UserFacingError(ApiErrorMessage(error), "handleApiError", k)

\* lastError's initial value in generateContentWithRetry.
DefaultLastError(k) ==
    [cls |-> "Error", message |-> << "API", "call", "failed", "after", "all", "retries." >>,
     id |-> [origin |-> "default", chunk |-> k, attempt |-> 0]]

\* The classes and messages of the values the remote call throws in the checked
\* runs: one per class of isRetryableError and handleApiError, in mixed case,
\* two that fall in several classes, one unclassified, and a non-Error value.
ThrowKinds ==
    { << "Error", << "Network", "down" >> >>,
      << "Error", << "failed", "to", "FETCH" >> >>,
      << "Error", << "429" >> >>,
      << "Error", << "503" >> >>,
      << "Error", << "500" >> >>,
      << "Error", << "401" >> >>,
      << "Error", << "403" >> >>,
      << "Error", << "400" >> >>,
      << "Error", << "API", "key", "not", "valid" >> >>,
      << "Error", << "SAFETY" >> >>,
      << "Error", << "Resource", "has", "been", "exhausted" >> >>,
      << "Error", << "boom" >> >>,
      << "Error", << "401", "network" >> >>,
      << "Error", << "SAFETY", "503" >> >>,
      << "value", << "network" >> >> }

\* The values attempt a for chunk k may throw; each is an object of its own.
ThrownValues(k, a) ==
    { [cls |-> kind[1], message |-> kind[2],
       id |-> [origin |-> "remote", chunk |-> k, attempt |-> a]] : kind \in ThrowKinds }

\* What a throwing progress callback throws.
CallbackError(k) ==
    [cls |-> "Error", message |-> << "callback", "failed" >>,
     id |-> [origin |-> "callback", chunk |-> k, attempt |-> 0]]

\* A throwing progress callback may also throw the exported UserFacingError.
CallbackUserFacingError(k) ==
    [cls |-> "UserFacingError", message |-> << "callback", "401" >>,
     id |-> [origin |-> "callback", chunk |-> k, attempt |-> 0]]

\* The values a throwing progress callback throws in the checked runs.
CallbackErrors(k) == {CallbackError(k), CallbackUserFacingError(k)}

\* The TypeError of response.text.trim() on an undefined response text.
UndefinedTextError(k) ==
    [cls |-> "TypeError",
     message |-> << "Cannot", "read", "properties", "of", "undefined" >>,
     id |-> [origin |-> "response", chunk |-> k, attempt |-> 0]]

\* ------------------------------------------------------------- responses

\* A response is [kind, chars, value]. kind "undefined": response.text is
\* undefined. Otherwise chars is response.text; for kind "json" it is the JSON
\* text of the finding array `value`, for kind "invalid" text JSON.parse rejects.
UndefinedResponse == [kind |-> "undefined", chars |-> << >>, value |-> << >>]

BlankResponse == [kind |-> "blank", chars |-> << " ", "\n" >>, value |-> << >>]

InvalidResponse == [kind |-> "invalid", chars |-> << "o", "o", "p", "s" >>, value |-> << >>]

JsonResponse(fs) == [kind |-> "json", chars |-> << "[", "]" >>, value |-> fs]

PlainResponse(str) == [kind |-> "plain", chars |-> str, value |-> << >>]

\* The substrings the findings for one chunk carry: the whole chunk, its first
\* character, and a string that occurs in no text.
ChunkFindingTexts(chunk) ==
    {chunk, << "z" >>} \cup (IF chunk = << >> THEN {} ELSE {<< chunk[1] >>})

\* The finding arrays (of at most one finding) returned for chunk k; the
\* finding of chunk k carries the metadata tag k + 1.
PlagiarismArrays(chunk, k) ==
    {<< >>} \cup
    { << [plagiarized_text |-> t, source_url |-> SourceUrlOf(k + 1),
          confidence_score |-> ConfidenceOf(k + 1)] >> : t \in ChunkFindingTexts(chunk) }

AiArrays(chunk, k) ==
    {<< >>} \cup
    { << [text_segment |-> p[1], is_ai_generated |-> p[2],
          confidence_score |-> ConfidenceOf(k + 1)] >> :
        p \in ChunkFindingTexts(chunk) \X BOOLEAN }

\* The rewritten texts returned for a chunk.
RewriteTexts == { << "x" >>, << "y", " ", "y" >>, << >> }

\* The responses the remote call may return for chunk k in mode m.
Responses(m, chunk, k) ==
    {UndefinedResponse} \cup
    (IF m = "plagiarism"
     THEN {BlankResponse, InvalidResponse} \cup {JsonResponse(fs) : fs \in PlagiarismArrays(chunk, k)}
     ELSE IF m = "ai"
     THEN {BlankResponse, InvalidResponse} \cup {JsonResponse(fs) : fs \in AiArrays(chunk, k)}
     ELSE {PlainResponse(str) : str \in RewriteTexts})

\* JSON.parse(jsonString) followed by the spread into allFindings succeeds.
ParsesAsFindings(resp) == resp.kind = "json"

\* The join with the default separator of Array.prototype.join: a comma.
JoinedTextDefaultSeparator(rs) ==
    join([k \in 1..Len(rs) |-> IF rs[k].kind = "undefined" THEN << >> ELSE rs[k].chars],
         << "," >>)

\* Array.prototype.join(' ') over humanizedChunks: an undefined element joins
\* as the empty string.
JoinedText(rs) ==
    join([k \in 1..Len(rs) |-> IF rs[k].kind = "undefined" THEN << >> ELSE rs[k].chars],
         << " " >>)

\* ---------------------------------------------------------- orchestrators
\* checkPlagiarism, checkAiContent and humanizeText share one control flow;
\* `mode` selects the response handling and the final step.  Positions (opc):
\*   "entry"       called; chunkText(text, CHUNK_SIZE_WORDS) is being computed
\*   "loop"        at the for statement's test
\*   "attempt"     in generateContentWithRetry, about to call the remote model
\*   "awaiting"    suspended at `await ai.models.generateContent(request)`
\*   "sleeping"    suspended at the backoff `await new Promise(setTimeout)`
\*   "response"    generateContentWithRetry returned; the response is unprocessed
\*   "catch"       a value was thrown inside the try block of the loop body
\*   "reconstruct" process*Results was called and has not returned
\*   "resolved", "rejected"   the promise settled

Rejected(e) == [kind |-> "rejected", value |-> e]

Resolved(v) == [kind |-> "resolved", value |-> v]

\* The delay with the exponent off by one: INITIAL_DELAY_MS * Math.pow(2, attempt).
BackoffDelayFromAttempt(a) == INITIAL_DELAY_MS * (2 ^ a)

\* INITIAL_DELAY_MS * Math.pow(2, attempt - 1)
BackoffDelay(a) == INITIAL_DELAY_MS * (2 ^ (a - 1))

\* The loop's i++.
NextChunkIndex(k) == k + 1

\* The retry test with its bound off by one (attempt < MAX_RETRIES - 1).
ShouldRetryOffByOne(error, a) == isRetryableError(error) /\ a < MAX_RETRIES - 1

\* The retry test without the isRetryableError conjunct.
ShouldRetryAnyError(error, a) == a < MAX_RETRIES

\* isRetryableError(error) && attempt < MAX_RETRIES
ShouldRetry(error, a) == isRetryableError(error) /\ a < MAX_RETRIES

\* A number literal as a double.
DoubleOf(n) == IF n = 0 THEN [bits |-> << >>, exp |-> 0] ELSE RoundToDouble(NatBits(n), 0, FALSE)

\* The percentage computed from the 0-based index: (i / totalChunks) * 100.
ChunkProgressFromZero(k, n) == DoublePercent(k, n)

\* const progress = ((i + 1) / totalChunks) * 100
ChunkProgress(k, n) == DoublePercent(k + 1, n)

\* const baseMessage = `Analyzing chunk ${i + 1} of ${totalChunks}...` and its
\* variants in checkAiContent and humanizeText, as a sequence of words.
BaseMessage(m, k, n) ==
    IF m = "plagiarism"
    THEN << "Analyzing", "chunk", ToString(k + 1), "of", ToString(n) \o "..." >>
    ELSE IF m = "ai"
    THEN << "Analyzing", "chunk", ToString(k + 1), "of", ToString(n), "for", "AI", "content..." >>
    ELSE << "Humanizing", "chunk", ToString(k + 1), "of", ToString(n) \o "..." >>

\* `${baseMessage} (Network issue, retrying attempt ${attempt + 1}/${MAX_RETRIES})`
RetryMessage(m, k, n, a) ==
    BaseMessage(m, k, n) \o
    << "(Network", "issue,", "retrying", "attempt",
       ToString(a + 1) \o "/" \o ToString(MAX_RETRIES) \o ")" >>

\* 'Finalizing results...'
FinalMessage == << "Finalizing", "results..." >>

\* const chunks = chunkText(...) returned; the locals are initialised.
EnterLoop ==
    /\ opc = "entry"
    /\ cpc = "returned"
    /\ i' = 0
    /\ allFindings' = << >>
    /\ humanizedChunks' = << >>
    /\ opc' = "loop"
    /\ UNCHANGED << response, caught, outcome, inFlight, processed, returned >>
    /\ UNCHANGED << chunkVars, reconVars, retryVars, appVars >>
    /\ UNCHANGED reported
    /\ UNCHANGED issued

\* Loop body up to the call: onProgress(progress, baseMessage) returns, the
\* request is built and generateContentWithRetry is entered.
LoopProgress ==
    /\ opc = "loop"
    /\ i < Len(chunks)
    /\ attempt' = 1
    /\ lastError' = DefaultLastError(i)
    /\ made' = 0
    /\ retried' = << >>
    /\ slept' = << >>
    /\ opc' = "attempt"
    /\ UNCHANGED << i, allFindings, humanizedChunks, response, caught, outcome,
                    inFlight, processed, returned >>
    /\ UNCHANGED << chunkVars, reconVars, appVars >>
    /\ reported' = Report(ChunkProgress(i, Len(chunks)), BaseMessage(mode, i, Len(chunks)))
    /\ UNCHANGED issued

\* onProgress(progress, baseMessage) throws: the call is outside the try block.
LoopProgressThrows ==
    /\ opc = "loop"
    /\ i < Len(chunks)
    /\ \E e \in CallbackErrors(i) : outcome' = Rejected(e)
    /\ opc' = "rejected"
    /\ UNCHANGED << i, allFindings, humanizedChunks, response, caught, inFlight, processed, returned >>
    /\ UNCHANGED << chunkVars, reconVars, retryVars, appVars >>
    /\ reported' = Report(ChunkProgress(i, Len(chunks)), BaseMessage(mode, i, Len(chunks)))
    /\ UNCHANGED issued

\* ai.models.generateContent(request) is called without awaiting the result,
\* and the loop moves on to the next chunk.
IssueAttemptNoAwait ==
    /\ opc = "attempt"
    /\ inFlight' = inFlight \cup {[chunk |-> i, attempt |-> attempt]}
    /\ made' = made + 1
    /\ i' = NextChunkIndex(i)
    /\ opc' = "loop"
    /\ UNCHANGED << allFindings, humanizedChunks, response, caught, outcome, processed, returned >>
    /\ UNCHANGED << attempt, lastError, retried, slept >>
    /\ UNCHANGED << chunkVars, reconVars, appVars >>
    /\ UNCHANGED reported
    /\ issued' = CountCall(issued)

\* const response = await ai.models.generateContent(request): the call is issued.
IssueAttempt ==
    /\ opc = "attempt"
    /\ inFlight' = inFlight \cup {[chunk |-> i, attempt |-> attempt]}
    /\ made' = made + 1
    /\ opc' = "awaiting"
    /\ UNCHANGED << i, allFindings, humanizedChunks, response, caught, outcome, processed, returned >>
    /\ UNCHANGED << attempt, lastError, retried, slept >>
    /\ UNCHANGED << chunkVars, reconVars, appVars >>
    /\ UNCHANGED reported
    /\ issued' = CountCall(issued)

\* The remote call resolves: generateContentWithRetry returns the response
\* (its locals go out of scope).
RemoteReturns ==
    /\ opc = "awaiting"
    /\ \E r \in Responses(mode, chunks[i + 1], i) : response' = r
    /\ inFlight' = inFlight \ {[chunk |-> i, attempt |-> attempt]}
    /\ returned' = Append(returned, i)
    /\ opc' = "response"
    /\ attempt' = 0
    /\ lastError' = NoValue
    /\ made' = 0
    /\ retried' = << >>
    /\ slept' = << >>
    /\ UNCHANGED << i, allFindings, humanizedChunks, caught, outcome, processed >>
    /\ UNCHANGED << chunkVars, reconVars, appVars >>
    /\ UNCHANGED reported
    /\ UNCHANGED issued

\* The remote call rejects with a retryable error and attempts remain:
\* onRetry(attempt) returns and the backoff sleep starts.
RemoteThrowsRetry ==
    /\ opc = "awaiting"
    /\ \E e \in ThrownValues(i, attempt) :
          /\ ShouldRetry(e, attempt)
          /\ lastError' = e
    /\ inFlight' = inFlight \ {[chunk |-> i, attempt |-> attempt]}
    /\ retried' = Append(retried, attempt)
    /\ slept' = Append(slept, BackoffDelay(attempt))
    /\ opc' = "sleeping"
    /\ UNCHANGED << i, allFindings, humanizedChunks, response, caught, outcome, processed, returned >>
    /\ UNCHANGED << attempt, made >>
    /\ UNCHANGED << chunkVars, reconVars, appVars >>
    /\ reported' = Report(ChunkProgress(i, Len(chunks)),
                        RetryMessage(mode, i, Len(chunks), attempt))
    /\ UNCHANGED issued

\* The same, but onRetry(attempt) (the progress callback) throws: the value
\* leaves generateContentWithRetry from inside its catch clause.
RemoteThrowsRetryNotifyThrows ==
    /\ opc = "awaiting"
    /\ \E e \in ThrownValues(i, attempt) :
          /\ ShouldRetry(e, attempt)
          /\ lastError' = e
    /\ inFlight' = inFlight \ {[chunk |-> i, attempt |-> attempt]}
    /\ retried' = Append(retried, attempt)
    /\ \E e \in CallbackErrors(i) : caught' = e
    /\ opc' = "catch"
    /\ UNCHANGED << i, allFindings, humanizedChunks, response, outcome, processed, returned >>
    /\ UNCHANGED << attempt, made, slept >>
    /\ UNCHANGED << chunkVars, reconVars, appVars >>
    /\ reported' = Report(ChunkProgress(i, Len(chunks)),
                        RetryMessage(mode, i, Len(chunks), attempt))
    /\ UNCHANGED issued

\* The remote call rejects with a non-retryable error, or on the last attempt:
\* throw lastError.
RemoteThrowsGiveUp ==
    /\ opc = "awaiting"
    /\ \E e \in ThrownValues(i, attempt) :
          /\ ~ShouldRetry(e, attempt)
          /\ lastError' = e
          /\ caught' = e
    /\ inFlight' = inFlight \ {[chunk |-> i, attempt |-> attempt]}
    /\ opc' = "catch"
    /\ UNCHANGED << i, allFindings, humanizedChunks, response, outcome, processed, returned >>
    /\ UNCHANGED << attempt, made, retried, slept >>
    /\ UNCHANGED << chunkVars, reconVars, appVars >>
    /\ UNCHANGED reported
    /\ UNCHANGED issued

\* The for loop without its attempt++: the same attempt number is used again.
BackoffElapsedNoIncrement ==
    /\ opc = "sleeping"
    /\ attempt' = attempt
    /\ opc' = "attempt"
    /\ UNCHANGED orchVarsButPc
    /\ UNCHANGED << lastError, made, retried, slept >>
    /\ UNCHANGED << chunkVars, reconVars, appVars >>

\* The backoff timer fires: the for loop of generateContentWithRetry goes round.
BackoffElapsed ==
    /\ opc = "sleeping"
    /\ attempt' = attempt + 1
    /\ opc' = "attempt"
    /\ UNCHANGED orchVarsButPc
    /\ UNCHANGED << lastError, made, retried, slept >>
    /\ UNCHANGED << chunkVars, reconVars, appVars >>

\* The same without the `if (jsonString)` test: an empty jsonString goes to
\* JSON.parse, which throws, and the inner catch throws the format error.
ProcessFindingsParsesEmpty ==
    /\ opc = "response"
    /\ mode \in {"plagiarism", "ai"}
    /\ response.kind # "undefined"
    /\ trim(response.chars) = << >> \/ ParsesAsFindings(response)
    /\ IF trim(response.chars) = << >>
       THEN /\ caught' = UserFacingError(MSG_FORMAT, "parse", i)
            /\ opc' = "catch"
            /\ UNCHANGED << i, allFindings, processed >>
       ELSE /\ allFindings' = allFindings \o response.value
            /\ processed' = Append(processed, i)
            /\ i' = NextChunkIndex(i)
            /\ opc' = "loop"
            /\ caught' = caught
    /\ UNCHANGED << humanizedChunks, response, outcome, inFlight, returned, reported >>
    /\ UNCHANGED << chunkVars, reconVars, retryVars, appVars >>
    /\ UNCHANGED issued

\* Detection modes: jsonString is empty, or parses; the findings are appended.
ProcessFindings ==
    /\ opc = "response"
    /\ mode \in {"plagiarism", "ai"}
    /\ response.kind # "undefined"
    /\ trim(response.chars) = << >> \/ ParsesAsFindings(response)
    /\ allFindings' = IF trim(response.chars) = << >> THEN allFindings
                      ELSE allFindings \o response.value
    /\ processed' = Append(processed, i)
    /\ returned' = returned
    /\ i' = NextChunkIndex(i)
    /\ opc' = "loop"
    /\ UNCHANGED << humanizedChunks, response, caught, outcome, inFlight >>
    /\ UNCHANGED << chunkVars, reconVars, retryVars, appVars >>
    /\ UNCHANGED reported
    /\ UNCHANGED issued

\* The inner catch only logs the parse error: the chunk counts as processed
\* with no findings.
ProcessParseFailureSkips ==
    /\ opc = "response"
    /\ mode \in {"plagiarism", "ai"}
    /\ response.kind # "undefined"
    /\ trim(response.chars) # << >>
    /\ ~ParsesAsFindings(response)
    /\ processed' = Append(processed, i)
    /\ i' = NextChunkIndex(i)
    /\ opc' = "loop"
    /\ UNCHANGED << allFindings, humanizedChunks, response, caught, outcome, inFlight, returned >>
    /\ UNCHANGED << chunkVars, reconVars, retryVars, appVars >>
    /\ UNCHANGED reported
    /\ UNCHANGED issued

\* Detection modes: JSON.parse throws; the inner catch throws the
\* invalid-response-format UserFacingError.
ProcessParseFailure ==
    /\ opc = "response"
    /\ mode \in {"plagiarism", "ai"}
    /\ response.kind # "undefined"
    /\ trim(response.chars) # << >>
    /\ ~ParsesAsFindings(response)
    /\ caught' = UserFacingError(MSG_FORMAT, "parse", i)
    /\ opc' = "catch"
    /\ UNCHANGED << i, allFindings, humanizedChunks, response, outcome, inFlight, processed, returned >>
    /\ UNCHANGED << chunkVars, reconVars, retryVars, appVars >>
    /\ UNCHANGED reported
    /\ UNCHANGED issued

\* Detection modes: response.text is undefined, so response.text.trim() throws
\* a TypeError inside the try block.
ProcessUndefinedText ==
    /\ opc = "response"
    /\ mode \in {"plagiarism", "ai"}
    /\ response.kind = "undefined"
    /\ caught' = UndefinedTextError(i)
    /\ opc' = "catch"
    /\ UNCHANGED << i, allFindings, humanizedChunks, response, outcome, inFlight, processed, returned >>
    /\ UNCHANGED << chunkVars, reconVars, retryVars, appVars >>
    /\ UNCHANGED reported
    /\ UNCHANGED issued

\* humanizeText: humanizedChunks.push(response.text).
ProcessRewrite ==
    /\ opc = "response"
    /\ mode = "humanize"
    /\ humanizedChunks' = Append(humanizedChunks, response)
    /\ processed' = Append(processed, i)
    /\ returned' = returned
    /\ i' = NextChunkIndex(i)
    /\ opc' = "loop"
    /\ UNCHANGED << allFindings, response, caught, outcome, inFlight >>
    /\ UNCHANGED << chunkVars, reconVars, retryVars, appVars >>
    /\ UNCHANGED reported
    /\ UNCHANGED issued

\* The catch clause swallows the failure and goes on with the next chunk.
CatchErrorContinue ==
    /\ opc = "catch"
    /\ i' = NextChunkIndex(i)
    /\ opc' = "loop"
    /\ UNCHANGED << allFindings, humanizedChunks, response, caught, outcome,
                    inFlight, processed, returned >>
    /\ UNCHANGED << chunkVars, reconVars, retryVars, appVars >>
    /\ UNCHANGED reported
    /\ UNCHANGED issued

\* The catch clause without its instanceof test: every caught value goes
\* through handleApiError.
CatchErrorAlwaysClassifies ==
    /\ opc = "catch"
    /\ outcome' = Rejected(handleApiError(caught, i))
    /\ opc' = "rejected"
    /\ UNCHANGED << i, allFindings, humanizedChunks, response, caught, inFlight, processed, returned >>
    /\ UNCHANGED << chunkVars, reconVars, retryVars, appVars >>
    /\ UNCHANGED reported
    /\ UNCHANGED issued

\* The catch clause of the loop body: a UserFacingError is re-thrown, anything
\* else goes through handleApiError; either way the orchestrator rejects.
CatchError ==
    /\ opc = "catch"
    /\ outcome' = Rejected(IF InstanceOfUserFacingError(caught) THEN caught
                           ELSE handleApiError(caught, i))
    /\ opc' = "rejected"
    /\ UNCHANGED << i, allFindings, humanizedChunks, response, caught, inFlight, processed, returned >>
    /\ UNCHANGED << chunkVars, reconVars, retryVars, appVars >>
    /\ UNCHANGED reported
    /\ UNCHANGED issued

\* After the loop: onProgress(100, 'Finalizing results...') throws.
FinalProgressThrows ==
    /\ opc = "loop"
    /\ i >= Len(chunks)
    /\ \E e \in CallbackErrors(i) : outcome' = Rejected(e)
    /\ opc' = "rejected"
    /\ UNCHANGED << i, allFindings, humanizedChunks, response, caught, inFlight, processed, returned >>
    /\ UNCHANGED << chunkVars, reconVars, retryVars, appVars >>
    /\ reported' = Report(DoubleOf(100), FinalMessage)
    /\ UNCHANGED issued

\* After the loop, detection modes: onProgress(100, ...) returns and
\* process*Results(text, allFindings) is called.
CallReconstructor ==
    /\ opc = "loop"
    /\ i >= Len(chunks)
    /\ mode \in {"plagiarism", "ai"}
    /\ originalText' = text
    /\ findings' = allFindings
    /\ rpc' = "entry"
    /\ opc' = "reconstruct"
    /\ UNCHANGED << mode, fi, segments, totalChars, result >>
    /\ UNCHANGED << i, allFindings, humanizedChunks, response, caught, outcome,
                    inFlight, processed, returned >>
    /\ UNCHANGED << chunkVars, retryVars, appVars >>
    /\ reported' = Report(DoubleOf(100), FinalMessage)
    /\ UNCHANGED issued

\* The reconstructor returned: the orchestrator resolves with its result.
ReturnReconstructed ==
    /\ opc = "reconstruct"
    /\ rpc = "returned"
    /\ outcome' = Resolved(result)
    /\ opc' = "resolved"
    /\ UNCHANGED << i, allFindings, humanizedChunks, response, caught, inFlight, processed, returned >>
    /\ UNCHANGED << chunkVars, reconVars, retryVars, appVars >>
    /\ UNCHANGED reported
    /\ UNCHANGED issued

\* After the loop, humanizeText: return humanizedChunks.join(' ').
ReturnJoined ==
    /\ opc = "loop"
    /\ i >= Len(chunks)
    /\ mode = "humanize"
    /\ outcome' = Resolved(JoinedText(humanizedChunks))
    /\ opc' = "resolved"
    /\ UNCHANGED << i, allFindings, humanizedChunks, response, caught, inFlight, processed, returned >>
    /\ UNCHANGED << chunkVars, reconVars, retryVars, appVars >>
    /\ reported' = Report(DoubleOf(100), FinalMessage)
    /\ UNCHANGED issued

\* The texts the orchestrators are run on.
RunTexts == StringsUpTo({"a", " "}, MaxRunTextLen)

\* An orchestrator is called with a text and a progress callback.  The chunk
\* size is CHUNK_SIZE_WORDS, scaled down to the limits the bounded texts reach.
Init ==
    /\ mode \in {"plagiarism", "ai", "humanize"}
    /\ text \in RunTexts
    /\ wordLimit \in {MathMin(CHUNK_SIZE_WORDS, w) : w \in 1..MaxRunWordLimit}
    /\ cpc = "entry"
    /\ chunks = << >>
    /\ originalText = << >>
    /\ findings = << >>
    /\ rpc = "idle"
    /\ fi = 0
    /\ segments = << >>
    /\ totalChars = 0
    /\ result = NoResult
    /\ opc = "entry"
    /\ i = 0
    /\ allFindings = << >>
    /\ humanizedChunks = << >>
    /\ response = NoValue
    /\ caught = NoValue
    /\ outcome = Pending
    /\ inFlight = {}
    /\ processed = << >>
    /\ returned = << >>
    /\ attempt = 0
    /\ lastError = NoValue
    /\ made = 0
    /\ retried = << >>
    /\ slept = << >>
    /\ reported = NoReport
    /\ issued = NotRecorded
    /\ AppMounted

Next ==
    \/ ChunkTextCall \/ EnterLoop
    \/ LoopProgress \/ LoopProgressThrows
    \/ IssueAttempt \/ RemoteReturns
    \/ RemoteThrowsRetry \/ RemoteThrowsRetryNotifyThrows \/ RemoteThrowsGiveUp
    \/ BackoffElapsed
    \/ ProcessFindings \/ ProcessParseFailure \/ ProcessUndefinedText \/ ProcessRewrite
    \/ CatchError
    \/ FinalProgressThrows \/ CallReconstructor \/ ReturnJoined
    \/ ReturnNoFindings \/ BeginForEach \/ ApplyFinding \/ ReturnResult
    \/ ReturnReconstructed

\* One run of an orchestrator, from its call to the settling of its promise.
Spec == Init /\ [][Next]_vars

\* ---------------------------------------- runs over texts with line breaks

\* The texts of the runs that check how chunks relate to the original text:
\* words separated by line breaks, which chunkText replaces by single spaces.
RejoinTexts == StringsUpTo({"a", "\n"}, MaxRejoinTextLen)

\* An orchestrator is called with a text whose words are separated by line
\* breaks.
InitRejoin ==
    /\ mode \in {"plagiarism", "ai", "humanize"}
    /\ text \in RejoinTexts
    /\ wordLimit \in {MathMin(CHUNK_SIZE_WORDS, w) : w \in 1..MaxRunWordLimit}
    /\ cpc = "entry"
    /\ chunks = << >>
    /\ originalText = << >>
    /\ findings = << >>
    /\ rpc = "idle"
    /\ fi = 0
    /\ segments = << >>
    /\ totalChars = 0
    /\ result = NoResult
    /\ opc = "entry"
    /\ i = 0
    /\ allFindings = << >>
    /\ humanizedChunks = << >>
    /\ response = NoValue
    /\ caught = NoValue
    /\ outcome = Pending
    /\ inFlight = {}
    /\ processed = << >>
    /\ returned = << >>
    /\ attempt = 0
    /\ lastError = NoValue
    /\ made = 0
    /\ retried = << >>
    /\ slept = << >>
    /\ reported = NoReport
    /\ issued = NotRecorded
    /\ AppMounted

SpecRejoin == InitRejoin /\ [][Next]_vars

\* ------------------------------------------- runs with the call history

\* The texts of the runs that record the number of remote calls: the empty
\* text and the texts of one or more words "a" separated by single spaces.
LiveTexts == {join([k \in 1..n |-> << "a" >>], << " " >>) : n \in 0..MaxLiveWords}

\* An orchestrator is called, with the chunk size scaled down to one word; the
\* run records every remote call it issues.
InitLive ==
    /\ mode \in {"plagiarism", "ai", "humanize"}
    /\ text \in LiveTexts
    /\ wordLimit = MathMin(CHUNK_SIZE_WORDS, 1)
    /\ cpc = "entry"
    /\ chunks = << >>
    /\ originalText = << >>
    /\ findings = << >>
    /\ rpc = "idle"
    /\ fi = 0
    /\ segments = << >>
    /\ totalChars = 0
    /\ result = NoResult
    /\ opc = "entry"
    /\ i = 0
    /\ allFindings = << >>
    /\ humanizedChunks = << >>
    /\ response = NoValue
    /\ caught = NoValue
    /\ outcome = Pending
    /\ inFlight = {}
    /\ processed = << >>
    /\ returned = << >>
    /\ attempt = 0
    /\ lastError = NoValue
    /\ made = 0
    /\ retried = << >>
    /\ slept = << >>
    /\ reported = NoReport
    /\ issued = Recorded
    /\ AppMounted

\* A run in which every step that can be taken is eventually taken: the
\* function resumes after each await, every remote call settles and every
\* backoff timer fires.
SpecLive == InitLive /\ [][Next]_vars /\ WF_vars(Next)

\* ------------------------------------------------------------ properties

\* The non-empty whitespace-delimited words of a string.
Words(str) == SelectSeq(SplitWhitespace(str), LAMBDA w : w # << >>)

\* The 0-based offset in the concatenated text at which segment k starts.
SegOffset(segs, k) == Len(Concat(SegmentTexts(SubSeq(segs, 1, k - 1))))

\* C1 - Segment partition: for every original text and finding list (empty,
\* repeated and overlapping substrings included), the texts of the segments a
\* reconstructor returns, concatenated in order, are the original text.
C1_SegmentPartition ==
    rpc = "returned" => Concat(SegmentTexts(result.segments)) = originalText

\* C1's case: a run whose list holds an empty substring and a repeated
\* substring, returning flagged segments between unflagged ones.
C1_Witness ==
    /\ rpc = "returned"
    /\ Len(WorkList) = 2
    /\ \E k \in 1..Len(result.segments) :
          IsFlagged(result.segments[k]) /\ result.segments[k].text = << >>
    /\ \E k \in 1..Len(result.segments) :
          IsFlagged(result.segments[k]) /\ result.segments[k].text # << >>
    /\ \E k \in 1..Len(result.segments) : ~IsFlagged(result.segments[k])

\* C2 - Chunk coverage: for any text and word limit W >= 1 the non-empty words
\* of the chunks, in chunk order, are the words of the text, and every chunk
\* but the last holds exactly W words.
C2_ChunkCoverage ==
    cpc = "returned" =>
        /\ Concat([k \in 1..Len(chunks) |-> Words(chunks[k])]) = Words(text)
        /\ \A k \in 1..(Len(chunks) - 1) : Len(Words(chunks[k])) = wordLimit

\* C3 - Single-chunk identity: when countWords(text) <= W, chunkText returns
\* the one-element list holding the text unchanged.
C3_SingleChunkIdentity ==
    (cpc = "returned" /\ countWords(text) <= wordLimit) => chunks = << text >>

\* C3's case: a text of at least two words within the limit whose whitespace a
\* split-and-rejoin would change.
C3_Witness ==
    /\ cpc = "returned"
    /\ countWords(text) >= 2
    /\ countWords(text) <= wordLimit
    /\ join(Words(text), << " " >>) # text

\* C6 - Score bounds: the overallScore a reconstructor returns is an integer
\* between 0 and 100.
C6_ScoreBounds ==
    rpc = "returned" => result.overallScore \in 0..100

\* C6's case: a run with two overlapping findings on a repetitive text that
\* returns the full score.
C6_Witness ==
    /\ rpc = "returned"
    /\ Len(WorkList) = 2
    /\ totalChars = Len(originalText)
    /\ Len(originalText) >= 3
    /\ result.overallScore = 100

\* C7 - First-match-wins: a pass of the loop over a later finding leaves every
\* segment that is already flagged in place: same text, same metadata, same
\* offset, not subdivided; and the returned segments are those of the last pass.
C7_FirstMatchWins ==
    [][ /\ (rpc = "loop" /\ fi' = fi + 1) =>
            \A k \in 1..Len(segments) :
                IsFlagged(segments[k]) =>
                    \E j \in 1..Len(segments') :
                        /\ IsFlagged(segments'[j])
                        /\ segments'[j] = segments[k]
                        /\ SegOffset(segments', j) = SegOffset(segments, k)
        /\ (rpc = "loop" /\ rpc' = "returned") => result'.segments = segments
      ]_vars

\* C7's case: the second finding's substring lies strictly inside a span the
\* first finding flagged, and the second pass has run.
C7_Witness ==
    /\ rpc = "loop"
    /\ fi = 2
    /\ \E k \in 1..Len(segments) :
          /\ IsFlagged(segments[k])
          /\ segments[k].score = ConfidenceOf(1)
          /\ LET later == IF mode = "ai" THEN WorkList[2].text_segment
                          ELSE WorkList[2].plagiarized_text
             IN  /\ later # << >>
                 /\ Len(later) < Len(segments[k].text)
                 /\ includes(segments[k].text, later)

\* C8 - No-findings identity: with an empty finding list a reconstructor
\* returns score 0 and one unflagged segment holding the whole text.
C8_NoFindingsIdentity ==
    (rpc = "returned" /\ Len(findings) = 0) =>
        /\ result.overallScore = 0
        /\ Len(result.segments) = 1
        /\ ~IsFlagged(result.segments[1])
        /\ result.segments[1].text = originalText
        /\ DOMAIN result.segments[1] =
              (IF mode = "ai" THEN {"text", "isAi"} ELSE {"text", "isPlagiarized"})

\* C8's case: a reconstructor has returned for an empty list and a non-empty text.
C8_Witness ==
    /\ rpc = "returned"
    /\ Len(findings) = 0
    /\ originalText # << >>

\* C4 - Retry exhaustion: when generateContentWithRetry gives up on a retryable
\* error of the remote call (every attempt failed with a retryable error and
\* every onRetry notification returned), it has made exactly MAX_RETRIES
\* attempts and called onRetry exactly MAX_RETRIES - 1 times (with 1, 2), and
\* the value it throws is the object the last attempt threw.
C4_RetryExhaustion ==
    (opc = "catch" /\ caught.id.origin = "remote" /\ isRetryableError(caught)) =>
        /\ made = MAX_RETRIES
        /\ Len(retried) = MAX_RETRIES - 1
        /\ retried = [k \in 1..(MAX_RETRIES - 1) |-> k]
        /\ caught = lastError
        /\ caught.id = [origin |-> "remote", chunk |-> i, attempt |-> MAX_RETRIES]

\* C4's case: the second chunk's call has thrown a retryable error after its
\* last attempt.
C4_Witness ==
    /\ opc = "catch"
    /\ i = 1
    /\ caught.id.origin = "remote"
    /\ isRetryableError(caught)
    /\ made = MAX_RETRIES

\* C5 - Non-retryable short-circuit: when the first attempt of a
\* generateContentWithRetry call fails with a non-retryable error, that very
\* error is thrown in the same step: one attempt, no onRetry call, no sleep.
C5_NonRetryableShortCircuit ==
    [][ ( /\ opc = "awaiting"
          /\ made = 1
          /\ lastError' # lastError
          /\ lastError'.id.origin = "remote"
          /\ ~isRetryableError(lastError') ) =>
            /\ opc' = "catch"
            /\ caught' = lastError'
            /\ made' = 1
            /\ retried' = << >>
            /\ slept' = << >>
            /\ inFlight' = {}
      ]_vars

\* C5's case: the first attempt threw an error whose message contains "401".
C5_Witness ==
    /\ opc = "catch"
    /\ made = 1
    /\ caught.id.origin = "remote"
    /\ caught.id.attempt = 1
    /\ includes(caught.message, << "401" >>)
    /\ ~isRetryableError(caught)

\* C9 - All-or-nothing: once a value has been thrown in the loop body of an
\* orchestrator, the only step left is the rejection of its promise with an
\* error: no further remote call is issued, the chunk index does not advance,
\* the reconstructor and the join are never reached, and nothing is resolved.
C9_AllOrNothing ==
    /\ [](opc \in {"catch", "rejected"} =>
            (inFlight = {} /\ rpc = "idle" /\ outcome.kind # "resolved"))
    /\ [][ (opc = "catch" \/ opc = "rejected") =>
             ( /\ opc = "catch"
               /\ opc' = "rejected"
               /\ outcome'.kind = "rejected"
               /\ outcome'.value.cls \in {"UserFacingError", "Error"}
               /\ inFlight' = {}
               /\ made' = made
               /\ i' = i
               /\ rpc' = "idle" ) ]_vars

\* C9's case: a three-chunk run rejected on its second chunk after the first
\* chunk's findings had been accumulated.
C9_Witness ==
    /\ opc = "rejected"
    /\ Len(chunks) = 3
    /\ i = 1
    /\ Len(allFindings) = 1
    /\ outcome.value.id.origin = "handleApiError"

\* C10 - Sequential dispatch: at most one remote call is in flight, and while a
\* call for chunk c is in flight the responses processed so far are exactly
\* those of chunks 0..c-1, in index order.
C10_SequentialDispatch ==
    /\ Cardinality(inFlight) <= 1
    /\ processed = [k \in 1..Len(processed) |-> k - 1]
    /\ \A c \in inFlight :
          /\ c.chunk = i
          /\ c.chunk < Len(chunks)
          /\ Len(processed) = c.chunk

\* C10's case: a retry attempt for the second chunk is in flight.
C10_Witness ==
    /\ opc = "awaiting"
    /\ inFlight = {[chunk |-> 1, attempt |-> 2]}
    /\ processed = << 0 >>

\* The substring a finding carries, whichever reconstructor it is for.
FindingText(finding) ==
    IF "text_segment" \in DOMAIN finding THEN finding.text_segment
    ELSE finding.plagiarized_text

\* Number of non-overlapping, leftmost-first occurrences of sub in s from
\* position p on (0 for the empty substring, which covers no character).
RECURSIVE Occurrences(_, _, _)
Occurrences(s, sub, p) ==
    IF sub = << >> \/ IndexOf(s, sub, p) = 0 THEN 0
    ELSE 1 + Occurrences(s, sub, IndexOf(s, sub, p) + Len(sub))

\* Number of characters in the flagged segments of a list.
FlaggedChars(segs) ==
    SumSeq([k \in 1..Len(segs) |-> IF IsFlagged(segs[k]) THEN Len(segs[k].text) ELSE 0])

\* Occurrences of sub inside the unflagged segments of a list.
UnflaggedOccurrences(segs, sub) ==
    SumSeq([k \in 1..Len(segs) |->
              IF IsFlagged(segs[k]) THEN 0 ELSE Occurrences(segs[k].text, sub, 1)])

\* C11 as stated - Additive score total: every finding applied adds
\* (occurrences of its substring in the underlying text x substring length) to
\* the matched-character total, whether or not an earlier finding already
\* covered those positions.
C11_AdditiveTotal ==
    [][ (rpc = "loop" /\ fi' = fi + 1) =>
          LET sub == FindingText(WorkList[fi + 1])
          IN  totalChars' = totalChars + Len(sub) * Occurrences(originalText, sub, 1)
      ]_vars

\* C11 as amended - a finding adds (occurrences x substring length) only for
\* the occurrences inside segments that are still unflagged; occurrences in text
\* an earlier finding flagged add nothing, so the total is always the number of
\* characters in flagged segments, each counted once.
C11_TotalCountsUnflaggedOnly ==
    /\ [](rpc \in {"loop", "returned"} => totalChars = FlaggedChars(segments))
    /\ [][ (rpc = "loop" /\ fi' = fi + 1) =>
             LET sub == FindingText(WorkList[fi + 1])
             IN  totalChars' = totalChars + Len(sub) * UnflaggedOccurrences(segments, sub)
         ]_vars

\* C11's case: the second finding repeats the first one's substring "ab" on
\* the text "abab"; both occurrences are already flagged and the total stays 4.
C11_Witness ==
    /\ rpc = "loop"
    /\ fi = 2
    /\ originalText = << "a", "b", "a", "b" >>
    /\ FindingText(WorkList[1]) = << "a", "b" >>
    /\ FindingText(WorkList[2]) = << "a", "b" >>
    /\ totalChars = 4

\* The chunk indexes 0..n-1 in order.
IndexesBelow(n) == [k \in 1..n |-> k - 1]

\* C12 as stated - Parse failure is fatal: in a detection orchestrator, every
\* response body that is not the mode's finding array (blank or malformed) puts
\* the invalid-response-format UserFacingError in the catch clause.
C12_UnparsedBodyIsFatal ==
    [][ (opc = "response" /\ mode \in {"plagiarism", "ai"}
           /\ response.kind \in {"blank", "invalid"}) =>
          (opc' = "catch" /\ caught'.message = << MSG_FORMAT >>) ]_vars

\* C12 as amended - when the trimmed response text of a chunk is non-empty and
\* JSON.parse (or the spread of its result) throws, the run rejects with the
\* invalid-response-format UserFacingError after exactly one returned remote
\* call for that chunk, with no call repeated and no later chunk requested; a
\* response text that is blank after trimming is not parsed and counts as a
\* chunk with no findings.
C12_ParseFailureIsFatal ==
    /\ [][ (opc = "response" /\ mode \in {"plagiarism", "ai"}
              /\ response.kind # "undefined" /\ trim(response.chars) # << >>
              /\ ~ParsesAsFindings(response)) =>
             ( /\ opc' = "catch"
               /\ caught' = UserFacingError(MSG_FORMAT, "parse", i)
               /\ inFlight' = {}
               /\ returned' = returned
               /\ i' = i ) ]_vars
    /\ [][ (opc = "response" /\ mode \in {"plagiarism", "ai"}
              /\ response.kind # "undefined" /\ trim(response.chars) = << >>) =>
             ( /\ opc' = "loop"
               /\ allFindings' = allFindings
               /\ i' = i + 1 ) ]_vars
    /\ []( (opc \in {"catch", "rejected"} /\ caught.id.origin = "parse") =>
             ( /\ returned = IndexesBelow(i + 1)
               /\ processed = IndexesBelow(i)
               /\ inFlight = {}
               /\ mode \in {"plagiarism", "ai"}
               /\ (opc = "rejected" => outcome = Rejected(caught)) ) )

\* C12's case: the first chunk of a multi-chunk detection run got a malformed
\* body; the run is rejected with the format message.
C12_Witness ==
    /\ opc = "rejected"
    /\ mode = "ai"
    /\ caught.id.origin = "parse"
    /\ response.kind = "invalid"
    /\ i = 0
    /\ Len(chunks) > 1
    /\ returned = << 0 >>
    /\ outcome.value.message = << MSG_FORMAT >>

\* The taxonomy's verdict on each value the remote call throws in the checked
\* runs, written out case by case.
TaxonomyMessage(e) ==
    IF e.cls = "value" THEN MSG_FALLBACK
    ELSE CASE e.message = << "Network", "down" >> -> MSG_NETWORK
           [] e.message = << "failed", "to", "FETCH" >> -> MSG_NETWORK
           [] e.message = << "429" >> -> MSG_TRAFFIC
           [] e.message = << "Resource", "has", "been", "exhausted" >> -> MSG_TRAFFIC
           [] e.message = << "503" >> -> MSG_SERVER
           [] e.message = << "500" >> -> MSG_SERVER
           [] e.message = << "401" >> -> MSG_AUTH
           [] e.message = << "403" >> -> MSG_AUTH
           [] e.message = << "API", "key", "not", "valid" >> -> MSG_AUTH
           [] e.message = << "400" >> -> MSG_INVALID
           [] e.message = << "SAFETY" >> -> MSG_SAFETY
           [] e.message = << "401", "network" >> -> MSG_AUTH
           [] e.message = << "SAFETY", "503" >> -> MSG_SAFETY
           [] OTHER -> MSG_FALLBACK

\* C13 - Failure taxonomy: when generateContentWithRetry throws a value the
\* remote call threw, the orchestrator rejects with a new UserFacingError whose
\* message is the one the taxonomy assigns to that value's class (credential,
\* safety, network, high traffic, invalid request, server, fallback; the
\* earliest matching class wins; a non-Error value gets the fallback).
C13_FailureTaxonomy ==
    /\ [][ (opc = "catch" /\ caught.id.origin = "remote") =>
             ( /\ opc' = "rejected"
               /\ outcome'.kind = "rejected"
               /\ outcome'.value.cls = "UserFacingError"
               /\ outcome'.value.message = << TaxonomyMessage(caught) >> ) ]_vars
    /\ []( (opc = "rejected" /\ caught.id.origin = "remote") =>
             outcome.value.message = << TaxonomyMessage(caught) >> )

\* C13's case: a failure matching two classes ("401" and "network") was retried
\* to exhaustion and the run is rejected with the credential message.
C13_Witness ==
    /\ opc = "rejected"
    /\ caught.id.origin = "remote"
    /\ caught.message = << "401", "network" >>
    /\ made = MAX_RETRIES
    /\ outcome.value.message = << MSG_AUTH >>

\* C14 - UserFacingError pass-through: a UserFacingError that reaches the
\* catch clause of an orchestrator's loop body settles the promise as that very
\* object, message and identity unchanged; handleApiError never builds a
\* replacement for it.
C14_UserFacingErrorPassThrough ==
    /\ [][ (opc = "catch" /\ InstanceOfUserFacingError(caught)) =>
             (opc' = "rejected" /\ outcome' = Rejected(caught)) ]_vars
    /\ []( (opc = "rejected" /\ InstanceOfUserFacingError(caught)) =>
             ( /\ outcome.value = caught
               /\ outcome.value.message = caught.message
               /\ outcome.value.id.origin # "handleApiError" ) )

\* C14's case: the invalid-response-format error raised by the inner catch of a
\* plagiarism run on its second chunk is what the caller receives.
C14_Witness ==
    /\ opc = "rejected"
    /\ mode = "plagiarism"
    /\ i = 1
    /\ caught = UserFacingError(MSG_FORMAT, "parse", 1)
    /\ outcome = Rejected(caught)

\* C15 - Unclassified errors propagate untranslated: an exception thrown by
\* the progress callback during a run (in the per-chunk report, the final
\* report or a retry notification) is the very value the orchestrator's promise
\* is rejected with.
C15_CallbackErrorPropagates ==
    /\ (opc = "rejected" /\ caught.id.origin = "callback") => outcome.value = caught
    /\ (opc = "rejected" /\ outcome.value.id.origin = "handleApiError") =>
          caught.id.origin # "callback"

\* The flagged segment the claims expect for one occurrence of a finding.
ExpectedFlagged(finding) ==
    IF "text_segment" \in DOMAIN finding
    THEN [text |-> finding.text_segment, isAi |-> TRUE, score |-> finding.confidence_score]
    ELSE [text |-> finding.plagiarized_text, isPlagiarized |-> TRUE,
          source |-> finding.source_url, score |-> finding.confidence_score]

\* What is left of an unflagged segment from position p on, after at least one
\* occurrence was replaced: the non-empty pieces between the leftmost-first
\* occurrences of the finding's substring, each occurrence as a flagged segment.
RECURSIVE ExpectedPieces(_, _, _)
ExpectedPieces(segment, finding, p) ==
    LET sub == FindingText(finding)
        s == segment.text
        idx == IndexOf(s, sub, p)
        plain(from, to) == IF from > to THEN << >>
                           ELSE << [segment EXCEPT !.text = SubSeq(s, from, to)] >>
    IN  IF idx = 0 THEN plain(p, Len(s))
        ELSE plain(p, idx - 1) \o << ExpectedFlagged(finding) >>
             \o ExpectedPieces(segment, finding, idx + Len(sub))

\* What the claimed application step makes of one segment: a flagged segment,
\* or one the substring does not occur in (the empty substring covers no
\* character and occurs nowhere), stays as it is.
ExpectedStep(segment, finding) ==
    IF IsFlagged(segment) \/ Occurrences(segment.text, FindingText(finding), 1) = 0
    THEN << segment >>
    ELSE ExpectedPieces(segment, finding, 1)

SpecifiedScore(len, total) ==
    IF len = 0 THEN 0
    ELSE IF total >= len THEN 100
    ELSE RoundDiv(100 * total, len)

\* C17 - Score formula: the score a reconstructor returns after its loop is
\* round(min(100, 100 x totalMatchedChars / length(originalText))), and 0 for
\* an empty text; 24 matched characters in a 26-character text give 92.
C17_ScoreFormula ==
    (rpc = "returned" /\ Len(WorkList) > 0) =>
        /\ result.overallScore = SpecifiedScore(Len(originalText), totalChars)
        /\ (Len(originalText) = 26 /\ totalChars = 24) => result.overallScore = 92

\* The indexes of the findings with is_ai_generated = true.
AiTrue == {j \in 1..Len(findings) : findings[j].is_ai_generated}

\* C18 - AI-detection filter: in processAiDetectionResults every flagged
\* segment of the result comes from a finding with is_ai_generated = true, the
\* matched characters are those of the flagged segments, the first such finding
\* is matched in the whole text whatever false findings precede it, and when no
\* finding has is_ai_generated = true the result is score 0 with one unflagged
\* segment holding the whole text.
C18_AiDetectionFilter ==
    (rpc = "returned" /\ mode = "ai") =>
        /\ \A n \in 1..Len(result.segments) :
              IsFlagged(result.segments[n]) =>
                 \E j \in AiTrue :
                    /\ findings[j].confidence_score = result.segments[n].score
                    /\ findings[j].text_segment = result.segments[n].text
        /\ totalChars = FlaggedChars(result.segments)
        /\ AiTrue = {} =>
              result = [overallScore |-> 0,
                        segments |-> << [text |-> originalText, isAi |-> FALSE] >>]
        /\ AiTrue # {} =>
              LET j == CHOOSE m \in AiTrue : \A o \in AiTrue : m <= o
                  sub == findings[j].text_segment
                  at == IndexOf(originalText, sub, 1)
              IN  (sub # << >> /\ at # 0) =>
                     \E n \in 1..Len(result.segments) :
                        /\ IsFlagged(result.segments[n])
                        /\ result.segments[n].score = findings[j].confidence_score
                        /\ result.segments[n].text = sub
                        /\ SegOffset(result.segments, n) = at - 1

\* C18's case: a finding with is_ai_generated = false is followed by one with
\* the same substring and is_ai_generated = true, which is the one that flags.
C18_Witness ==
    /\ rpc = "returned"
    /\ mode = "ai"
    /\ Len(findings) = 2
    /\ ~findings[1].is_ai_generated
    /\ findings[2].is_ai_generated
    /\ findings[1].text_segment = findings[2].text_segment
    /\ \E n \in 1..Len(result.segments) :
          IsFlagged(result.segments[n]) /\ result.segments[n].score = ConfidenceOf(2)
    /\ result.overallScore > 0

\* C19 as stated - Segments are maximal: in the list a reconstructor returns
\* no two consecutive segments carry the same flagged/unflagged tag.
C19_SegmentsMaximal ==
    rpc = "returned" =>
        \A k \in 1..(Len(result.segments) - 1) :
            IsFlagged(result.segments[k]) # IsFlagged(result.segments[k + 1])

\* C19 as amended - no two consecutive segments are both unflagged; flagged
\* segments are not merged: each holds exactly one occurrence of the substring
\* of the finding whose metadata it carries, so adjacent occurrences (and
\* adjacent spans of different findings) stay separate consecutive flagged
\* segments.
C19_UnflaggedSegmentsMaximal ==
    rpc = "returned" =>
        /\ \A k \in 1..(Len(result.segments) - 1) :
              IsFlagged(result.segments[k]) \/ IsFlagged(result.segments[k + 1])
        /\ \A k \in 1..Len(result.segments) :
              IsFlagged(result.segments[k]) =>
                 \E j \in 1..Len(findings) :
                    /\ findings[j].confidence_score = result.segments[k].score
                    /\ FindingText(findings[j]) = result.segments[k].text

\* C19's case: text "abab" with finding "ab" returns two consecutive flagged
\* segments "ab", "ab".
C19_Witness ==
    /\ rpc = "returned"
    /\ originalText = << "a", "b", "a", "b" >>
    /\ Len(WorkList) = 1
    /\ FindingText(WorkList[1]) = << "a", "b" >>
    /\ Len(result.segments) = 2
    /\ IsFlagged(result.segments[1])
    /\ IsFlagged(result.segments[2])

\* C20 - No empty segments: for a non-empty original text and any finding
\* list, a finding with the empty substring included, no segment of the
\* returned list has empty text.
C20_NoEmptySegments ==
    (rpc = "returned" /\ originalText # << >>) =>
        \A k \in 1..Len(result.segments) : result.segments[k].text # << >>

\* The chunk a finding of an orchestrator run was returned for (its tag).
ChunkOfFinding(finding) == finding.confidence_score - 1

\* Segment k of the list covers the positions from..to of the concatenated text.
SegmentCovers(segs, k, from, to) ==
    /\ SegOffset(segs, k) < from
    /\ to <= SegOffset(segs, k) + Len(segs[k].text)

\* sub occurs in the concatenated text of the list, and each of its occurrences
\* lies inside a segment that is already flagged.
AllOccurrencesFlagged(segs, sub) ==
    LET whole == Concat(SegmentTexts(segs))
    IN  /\ includes(whole, sub)
        /\ \A p \in 1..Len(whole) :
              OccursAt(whole, sub, p) =>
                 \E k \in 1..Len(segs) :
                    /\ IsFlagged(segs[k])
                    /\ SegmentCovers(segs, k, p, p + Len(sub) - 1)

\* C21 - Chunk-local findings are mapped back onto the original text: in a
\* detection run, when the reconstructor applies a finding whose (non-empty)
\* substring occurs verbatim in the chunk it was returned for, the new segment
\* list holds a flagged segment with that substring, unless every occurrence of
\* the substring in the original text lies in a segment already flagged.
C21_FindingsMappedBack ==
    [][ (opc = "reconstruct" /\ rpc = "loop" /\ fi' = fi + 1) =>
          LET finding == WorkList[fi + 1]
              sub == FindingText(finding)
          IN  ( /\ sub # << >>
                /\ includes(chunks[ChunkOfFinding(finding) + 1], sub)
                /\ ~AllOccurrencesFlagged(segments, sub) ) =>
                 \E k \in 1..Len(segments') :
                    IsFlagged(segments'[k]) /\ segments'[k].text = sub
      ]_vars

\* x <= y for two doubles that are zero or positive.
DoubleLeq(x, y) ==
    \/ x.bits = << >>
    \/ /\ y.bits # << >>
       /\ \/ x.exp < y.exp
          \/ /\ x.exp = y.exp
             /\ \/ x.bits = y.bits
                \/ \E k \in 1..Len(x.bits) :
                      /\ x.bits[k] < y.bits[k]
                      /\ \A j \in 1..(k - 1) : x.bits[j] = y.bits[j]

\* The double (k / n) * 100.
ExpectedPercent(k, n) == DoubleTimes(DoubleQuotient(k, n), 100)

\* C22 - Progress reporting: in every orchestrator run over N chunks the
\* callback is invoked with ((i+1)/N) x 100 and the chunk's base message before
\* the first remote attempt for chunk i (and that percentage stays the reported
\* one while the chunk is attempted); each retry notification re-reports the
\* same percentage with a message that ends by announcing attempt k+1 of
\* MAX_RETRIES; a resolved run has last reported exactly 100; every reported
\* percentage is in (0, 100]; and the reported percentages never decrease.
C22_ProgressReporting ==
    /\ [][ (opc = "loop" /\ opc' = "attempt") =>
             ( /\ reported' = Report(ExpectedPercent(i + 1, Len(chunks)),
                                     BaseMessage(mode, i, Len(chunks)))
               /\ made' = 0
               /\ inFlight' = {} ) ]_vars
    /\ []( (opc = "attempt" \/ opc = "awaiting" \/ opc = "sleeping") =>
             reported.progress = ExpectedPercent(i + 1, Len(chunks)) )
    /\ [][ (retried' # retried /\ retried' # << >>) =>
             ( /\ reported'.progress = reported.progress
               /\ reported'.progress = ExpectedPercent(i + 1, Len(chunks))
               /\ reported'.message =
                     BaseMessage(mode, i, Len(chunks)) \o
                     << "(Network", "issue,", "retrying", "attempt",
                        ToString(attempt + 1) \o "/" \o ToString(MAX_RETRIES) \o ")" >> ) ]_vars
    /\ []( opc = "resolved" => reported = Report(DoubleOf(100), FinalMessage) )
    /\ []( reported # NoReport =>
             ( /\ reported.progress # DoubleZero
               /\ DoubleLeq(reported.progress, DoubleOf(100)) ) )
    /\ [][ DoubleLeq(reported.progress, reported'.progress) ]_vars

\* C22's case: the first of two chunks failed twice with a retryable error;
\* the second retry notification re-reported 50% announcing attempt 3/3.
C22_Witness ==
    /\ opc = "sleeping"
    /\ Len(chunks) = 2
    /\ i = 0
    /\ retried = << 1, 2 >>
    /\ reported.progress = DoubleOf(50)
    /\ reported.message = << "Humanizing", "chunk", "1", "of", "2...",
                             "(Network", "issue,", "retrying", "attempt", "3/3)" >>

\* The first n delays of the schedule 1000, 2000, ...: INITIAL_DELAY_MS x 2^(k-1).
ScheduledDelays(n) == [k \in 1..n |-> INITIAL_DELAY_MS * (2 ^ (k - 1))]

\* C23 - Backoff schedule: when attempt k of a generateContentWithRetry call
\* fails with a retryable error and k < MAX_RETRIES, onRetry(k) is called first
\* and then (when it returns) the call sleeps INITIAL_DELAY_MS x 2^(k-1) ms, so
\* attempt k+1 is always preceded by the notifications 1..k and the sleeps
\* 1000, 2000, ...; the sleeps of one call add up to at most
\* INITIAL_DELAY_MS x (2^(MAX_RETRIES-1) - 1) = 3000 ms, and a call that gives
\* up, on whichever attempt, does not sleep after that attempt.
C23_BackoffSchedule ==
    /\ [][ (opc = "awaiting" /\ lastError' # lastError /\ opc' # "response"
              /\ isRetryableError(lastError') /\ attempt < MAX_RETRIES) =>
             ( /\ retried' = Append(retried, attempt)
               /\ \/ opc' = "sleeping"
                     /\ slept' = Append(slept, INITIAL_DELAY_MS * (2 ^ (attempt - 1)))
                  \/ opc' = "catch"
                     /\ caught'.id.origin = "callback"
                     /\ slept' = slept ) ]_vars
    /\ []( (opc = "attempt" \/ opc = "awaiting") =>
             ( /\ retried = [k \in 1..(attempt - 1) |-> k]
               /\ slept = ScheduledDelays(attempt - 1) ) )
    /\ []( opc = "sleeping" => slept = ScheduledDelays(attempt) )
    /\ []( SumSeq(slept) <= INITIAL_DELAY_MS * ((2 ^ (MAX_RETRIES - 1)) - 1)
           /\ SumSeq(slept) <= 3000 )
    /\ [][ (opc = "awaiting" /\ opc' = "catch") => slept' = slept ]_vars
    /\ []( (opc = "catch" /\ caught.id.origin = "remote") =>
             Len(slept) = caught.id.attempt - 1 )

\* C23's case: two attempts failed with retryable errors; the call slept 1000
\* and then 2000 ms and is about to make its last attempt.
C23_Witness ==
    /\ opc = "sleeping"
    /\ attempt = 2
    /\ retried = << 1, 2 >>
    /\ slept = << 1000, 2000 >>

\* Whether the claim's classification calls a thrown value of the checked runs
\* retryable, written out case by case: an Error naming a network failure or a
\* status 429, 500 or 503 (whatever else its message names).
RetryableKind(e) ==
    IF e.cls = "value" THEN FALSE
    ELSE CASE e.message = << "Network", "down" >> -> TRUE
           [] e.message = << "failed", "to", "FETCH" >> -> TRUE
           [] e.message = << "429" >> -> TRUE
           [] e.message = << "503" >> -> TRUE
           [] e.message = << "500" >> -> TRUE
           [] e.message = << "401", "network" >> -> TRUE
           [] e.message = << "SAFETY", "503" >> -> TRUE
           [] OTHER -> FALSE

RewrittenText(resp) == IF resp.kind = "undefined" THEN << >> ELSE resp.chars

\* The first n rewritten texts with one space between neighbours, built from
\* the left.
RECURSIVE SpaceSeparated(_, _)
SpaceSeparated(rs, n) ==
    IF n = 0 THEN << >>
    ELSE IF n = 1 THEN RewrittenText(rs[1])
    ELSE SpaceSeparated(rs, n - 1) \o << " " >> \o RewrittenText(rs[n])

\* C25 - Rewrite-mode result: humanizeText stores the response of each chunk,
\* in chunk order, as that chunk is processed, and a resolved run over N chunks
\* returns exactly these N response texts joined with single spaces (one per
\* chunk, none dropped, duplicated or reordered); no reconstructor runs.
C25_RewriteResult ==
    /\ [][ (opc = "response" /\ mode = "humanize") =>
             ( /\ Len(humanizedChunks) = i
               /\ humanizedChunks' = Append(humanizedChunks, response)
               /\ processed' = Append(processed, i) ) ]_vars
    /\ []( (opc = "resolved" /\ mode = "humanize") =>
             ( /\ Len(humanizedChunks) = Len(chunks)
               /\ processed = IndexesBelow(Len(chunks))
               /\ returned = IndexesBelow(Len(chunks))
               /\ outcome = Resolved(SpaceSeparated(humanizedChunks, Len(chunks)))
               /\ rpc = "idle"
               /\ result = NoResult ) )

\* C25's case: a two-chunk rewrite returned "x" for the first chunk and "y y"
\* for the second; the run resolved with "x y y".
C25_Witness ==
    /\ opc = "resolved"
    /\ mode = "humanize"
    /\ Len(chunks) = 2
    /\ humanizedChunks[1].chars = << "x" >>
    /\ humanizedChunks[2].chars = << "y", " ", "y" >>
    /\ outcome.value = << "x", " ", "y", " ", "y" >>

\* The tokens ws grouped in order into batches of w tokens (the last one may be
\* shorter), each batch joined with single spaces.
TokenBatches(ws, w) ==
    [k \in 1..((Len(ws) + w - 1) \div w) |->
        join(SubSeq(ws, (k - 1) * w + 1, MathMin(k * w, Len(ws))), << " " >>)]

\* C26 - Multi-chunk splitting: when countWords(text) > W, chunkText returns
\* the non-empty whitespace-delimited tokens of the text grouped in order into
\* batches of exactly W tokens (the final batch may be shorter), each joined
\* with single spaces; no chunk is empty and none starts or ends with
\* whitespace.
C26_MultiChunkSplitting ==
    (cpc = "returned" /\ countWords(text) > wordLimit) =>
        /\ chunks = TokenBatches(Words(text), wordLimit)
        /\ \A k \in 1..Len(chunks) :
              /\ chunks[k] # << >>
              /\ trim(chunks[k]) = chunks[k]

\* The score without the final Math.min(100, ...).
UnclampedScore(original, total) ==
    IF Len(original) > 0
    THEN MathRound(DoubleTimes(DoubleQuotient(total, Len(original)), 100))
    ELSE 0

\* The text lengths of the flagged segments of a list, added up one by one.
RECURSIVE FlaggedLength(_)
FlaggedLength(segs) ==
    IF segs = << >> THEN 0
    ELSE (IF IsFlagged(Head(segs)) THEN Len(Head(segs).text) ELSE 0)
         + FlaggedLength(Tail(segs))

\* C27 - Matched total equals flagged length: when a reconstructor returns,
\* the matched-character total it accumulated is the sum of the text lengths of
\* the flagged segments it returns; the total is therefore at most the length
\* of the original text, and the returned score is the rounded percentage
\* itself, unchanged by the clamp to 100.
C27_MatchedTotalIsFlaggedLength ==
    rpc = "returned" =>
        /\ totalChars = FlaggedLength(result.segments)
        /\ totalChars >= 0
        /\ totalChars <= Len(originalText)
        /\ result.overallScore = UnclampedScore(originalText, totalChars)

\* C27's case: two findings both matched a four-character text, the second
\* only where the first had left text unflagged; three characters are flagged.
C27_Witness ==
    /\ rpc = "returned"
    /\ Len(originalText) = 4
    /\ Len(WorkList) = 2
    /\ FindingText(WorkList[1]) # FindingText(WorkList[2])
    /\ includes(FindingText(WorkList[2]), FindingText(WorkList[1]))
    /\ totalChars = 3
    /\ result.overallScore = 75

\* C28 - Empty response body: in a detection orchestrator, a chunk response
\* whose text is empty after trimming is processed as zero findings: the
\* accumulated findings stay as they are, nothing is thrown or caught, the
\* promise stays pending, and the loop moves on to the next chunk index.
C28_EmptyBodyIsNoFindings ==
    [][ (opc = "response" /\ mode \in {"plagiarism", "ai"}
           /\ response.kind # "undefined" /\ trim(response.chars) = << >>) =>
          ( /\ allFindings' = allFindings
            /\ caught' = caught
            /\ caught' = NoValue
            /\ outcome' = Pending
            /\ processed' = Append(processed, i)
            /\ i' = i + 1
            /\ opc' = "loop" ) ]_vars

\* C28's case: the first chunk of a two-chunk detection run got a blank body;
\* the loop is at the second chunk with no findings and nothing caught.
C28_Witness ==
    /\ opc = "loop"
    /\ mode = "plagiarism"
    /\ Len(chunks) = 2
    /\ i = 1
    /\ response = BlankResponse
    /\ processed = << 0 >>
    /\ allFindings = << >>
    /\ caught = NoValue

AppModes == {"plagiarism", "ai", "summarize", "humanize"}

\* The texts the UploadView hands to onAnalyze.
AppTexts == StringsUpTo({"a"}, MaxAppTextLen)

\* The AnalysisOptions the UploadView hands to onAnalyze.
AppOptions == {"default", "strict"}

\* setLoadingMessage('Starting ...') of the mode's branch.
StartingMessage(m) ==
    IF m = "plagiarism" THEN << "Starting", "plagiarism", "analysis..." >>
    ELSE IF m = "ai" THEN << "Starting", "AI", "content", "analysis..." >>
    ELSE IF m = "summarize" THEN << "Starting", "text", "summarization..." >>
    ELSE << "Starting", "text", "humanization..." >>

\* The values the awaited service resolves with in the checked runs: a result
\* with its overall score for the detectors, a string for the rewriters.
ServiceResults(m) ==
    IF m \in {"plagiarism", "ai"}
    THEN {[overallScore |-> 0, segments |-> << >>], [overallScore |-> 100, segments |-> << >>]}
    ELSE {<< >>, << "b" >>}

\* The values the awaited service rejects with in the checked runs: what
\* handleApiError throws, a UserFacingError with an empty message, another
\* Error, and a value that is no Error.
ServiceRejections ==
    { UserFacingError(MSG_NETWORK, "handleApiError", 0),
      UserFacingError("", "service", 0),
      CallbackError(0),
      [cls |-> "value", message |-> << "network" >>,
       id |-> [origin |-> "service", chunk |-> 0, attempt |-> 0]] }

\* The arguments the service of mode m passes to onProgress in the checked runs.
ServiceReports(m) ==
    IF m = "summarize" THEN {Report(DoubleOf(100), FinalMessage)}
    ELSE {Report(ChunkProgress(0, 2), BaseMessage(m, 0, 2)),
          Report(DoubleOf(100), FinalMessage)}

\* The object handed to setResultData in the branch of mode m; an optional
\* property that is not set is null.
ResultDataOf(m, t, o, v) ==
    [originalText |-> t,
     plagiarismResults |-> IF m = "plagiarism" THEN << v >> ELSE Null,
     aiDetectionResults |-> IF m = "ai" THEN << v >> ELSE Null,
     summarizedText |-> IF m = "summarize" THEN << v >> ELSE Null,
     humanizedText |-> IF m \notin {"plagiarism", "ai", "summarize"} THEN << v >> ELSE Null,
     mode |-> m,
     options |-> o]

MSG_TECHNICAL == "An unexpected technical issue occurred. Please check your connection or try again later."
MSG_UNKNOWN == "An unknown error occurred during analysis."

\* The catch block with no message for a value that is no Error.
CaughtErrorMessageErrorsOnly(err) ==
    IF InstanceOfUserFacingError(err) THEN << err.message >>
    ELSE IF InstanceOfError(err) THEN << << MSG_TECHNICAL >> >>
    ELSE Null

\* The argument of setError in the catch block.
CaughtErrorMessage(err) ==
    IF InstanceOfUserFacingError(err) THEN << err.message >>
    ELSE IF InstanceOfError(err) THEN << << MSG_TECHNICAL >> >>
    ELSE << << MSG_UNKNOWN >> >>

\* renderContent(): the component rendered and its props.
renderContent ==
    IF view = "loading"
    THEN [component |-> "Loader", progress |-> loadingProgress, message |-> loadingMessage]
    ELSE IF view = "results"
    THEN IF resultData # Null
         THEN [component |-> "ResultsView", data |-> resultData[1]]
         ELSE [component |-> "none"]
    ELSE [component |-> "UploadView", error |-> appError]

\* The UploadView's button calls onAnalyze(text, mode, options): handleAnalyze
\* runs up to its first await; React commits the four updates together.
handleAnalyze ==
    /\ renderContent.component = "UploadView"
    /\ \E t \in AppTexts : \E m \in AppModes : \E o \in AppOptions :
          /\ view' = "loading"
          /\ loadingProgress' = DoubleZero
          /\ appError' = Null
          /\ loadingMessage' = StartingMessage(m)
          /\ analysis' = [mode |-> m, text |-> t, options |-> o, at |-> "awaiting",
                          settled |-> Pending]
    /\ UNCHANGED resultData
    /\ UNCHANGED << chunkVars, reconVars, orchVars, retryVars >>

\* The running service calls onProgress(progress, message).
onProgress ==
    /\ analysis.at = "awaiting"
    /\ analysis.settled = Pending
    /\ \E r \in ServiceReports(analysis.mode) :
          /\ loadingProgress' = r.progress
          /\ loadingMessage' = r.message
    /\ UNCHANGED << view, resultData, appError, analysis >>
    /\ UNCHANGED << chunkVars, reconVars, orchVars, retryVars >>

\* The awaited service's promise resolves.
ServiceResolves ==
    /\ analysis.at = "awaiting"
    /\ analysis.settled = Pending
    /\ \E v \in ServiceResults(analysis.mode) :
          analysis' = [analysis EXCEPT !.settled = [kind |-> "resolved", value |-> v]]
    /\ UNCHANGED << view, resultData, loadingProgress, loadingMessage, appError >>
    /\ UNCHANGED << chunkVars, reconVars, orchVars, retryVars >>

\* The awaited service's promise rejects.
ServiceRejects ==
    /\ analysis.at = "awaiting"
    /\ analysis.settled = Pending
    /\ \E e \in ServiceRejections :
          analysis' = [analysis EXCEPT !.settled = [kind |-> "rejected", value |-> e]]
    /\ UNCHANGED << view, resultData, loadingProgress, loadingMessage, appError >>
    /\ UNCHANGED << chunkVars, reconVars, orchVars, retryVars >>

\* handleAnalyze resumes after the await: setResultData({...}). The updates
\* after an await are committed one by one; a build that batches them shows
\* only the state after the second.
handleAnalyzeSetResultData ==
    /\ analysis.at = "awaiting"
    /\ analysis.settled.kind = "resolved"
    /\ resultData' = << ResultDataOf(analysis.mode, analysis.text, analysis.options,
                                     analysis.settled.value) >>
    /\ analysis' = [analysis EXCEPT !.at = "resultSet"]
    /\ UNCHANGED << view, loadingProgress, loadingMessage, appError >>
    /\ UNCHANGED << chunkVars, reconVars, orchVars, retryVars >>

\* setView('results'); handleAnalyze returns.
handleAnalyzeSetViewResults ==
    /\ analysis.at = "resultSet"
    /\ view' = "results"
    /\ analysis' = NoAnalysis
    /\ UNCHANGED << resultData, loadingProgress, loadingMessage, appError >>
    /\ UNCHANGED << chunkVars, reconVars, orchVars, retryVars >>

\* The await throws into the catch block: setError(...).
handleAnalyzeSetError ==
    /\ analysis.at = "awaiting"
    /\ analysis.settled.kind = "rejected"
    /\ appError' = CaughtErrorMessage(analysis.settled.value)
    /\ analysis' = [analysis EXCEPT !.at = "errorSet"]
    /\ UNCHANGED << view, resultData, loadingProgress, loadingMessage >>
    /\ UNCHANGED << chunkVars, reconVars, orchVars, retryVars >>

\* setView('upload'); handleAnalyze returns.
handleAnalyzeSetViewUpload ==
    /\ analysis.at = "errorSet"
    /\ view' = "upload"
    /\ analysis' = NoAnalysis
    /\ UNCHANGED << resultData, loadingProgress, loadingMessage, appError >>
    /\ UNCHANGED << chunkVars, reconVars, orchVars, retryVars >>

\* The ResultsView's button calls onReset.
handleReset ==
    /\ renderContent.component = "ResultsView"
    /\ view' = "upload"
    /\ resultData' = Null
    /\ loadingProgress' = DoubleZero
    /\ loadingMessage' = << >>
    /\ appError' = Null
    /\ UNCHANGED analysis
    /\ UNCHANGED << chunkVars, reconVars, orchVars, retryVars >>

\* The App is mounted; no orchestrator of the model is running.
InitApp ==
    /\ text = << >>
    /\ wordLimit = 0
    /\ cpc = "idle"
    /\ chunks = << >>
    /\ mode = "none"
    /\ originalText = << >>
    /\ findings = << >>
    /\ rpc = "idle"
    /\ fi = 0
    /\ segments = << >>
    /\ totalChars = 0
    /\ result = NoResult
    /\ opc = "idle"
    /\ i = 0
    /\ allFindings = << >>
    /\ humanizedChunks = << >>
    /\ response = NoValue
    /\ caught = NoValue
    /\ outcome = Pending
    /\ inFlight = {}
    /\ processed = << >>
    /\ returned = << >>
    /\ attempt = 0
    /\ lastError = NoValue
    /\ made = 0
    /\ retried = << >>
    /\ slept = << >>
    /\ reported = NoReport
    /\ issued = NotRecorded
    /\ AppMounted

NextApp ==
    \/ handleAnalyze \/ onProgress
    \/ ServiceResolves \/ ServiceRejects
    \/ handleAnalyzeSetResultData \/ handleAnalyzeSetViewResults
    \/ handleAnalyzeSetError \/ handleAnalyzeSetViewUpload
    \/ handleReset

\* The App over any sequence of analyses, progress reports and resets.
SpecApp == InitApp /\ [][NextApp]_vars

=============================================================================
